---- MODULE Spec2Model ----
(***************************************************************************)
(* CrammAI: the live tutor session (LiveTutorView) and the view state     *)
(* machine with its background tasks (App) of src/index.tsx.               *)
(*                                                                         *)
(* The specifications that share the module:                               *)
(*   SpecTranscript  processTranscription and the deferred setTranscript   *)
(*                   updaters it enqueues;                                 *)
(*   SpecAudio       playAudio, the playback cursor and the output queue;  *)
(*   Spec            the session effect: startSession, the transport       *)
(*                   callbacks and the effect cleanup, over the effect     *)
(*                   runs of one mounted LiveTutorView;                    *)
(*   SpecSend        one run of the session effect together with the       *)
(*                   microphone frames onaudioprocess sends;               *)
(*   SpecNotes       handleGeneratePlan and the notes tasks of its plan,   *)
(*                   from page load and without Start Over;                *)
(*   SpecApp         the App: every handler, awaited call and background   *)
(*                   task, from the home page;                             *)
(*   SpecViews       the handlers that set the view, every awaited call    *)
(*                   settling;                                             *)
(*   SpecAdaptive    the adaptive continuation of a quiz, from the quiz    *)
(*                   page with the first block of questions;               *)
(*   SpecTurns       onmessage: the transcription of a message and its     *)
(*                   audio, while every buffer scheduled is still queued;  *)
(*   SpecCodec       createBlob and decodeAudioData of api.ts on one       *)
(*                   sample;                                               *)
(*   SpecStudy       one plan, its notes tasks, the study page and the     *)
(*                   mnemonics;                                            *)
(*   SpecUpload      the upload page: handleAddFile and handleRemoveFile;  *)
(*   SpecRetry       the retry loop of apiGenerateStudyNotes;              *)
(*   SpecNotesText   one plan whose notes generator may answer with a text *)
(*                   without content;                                      *)
(*   SpecSlots       the upload handlers called from the render that       *)
(*                   created them, and the renders of the App;             *)
(*   SpecDeferred    processTranscription with a record of the accumulator *)
(*                   each queued updater was called on;                    *)
(*   SpecQuiz        QuizPage on a list of questions, to the summary and   *)
(*                   back through Retry;                                   *)
(*   SpecQuizStart   handleStartQuiz from the results page of a plan, and  *)
(*                   the quizzes it starts.                                *)
(* The live session specifications leave the App on the study page with    *)
(* the overlay open; the App specifications start without a session.       *)
(***************************************************************************)
EXTENDS Integers, Sequences, FiniteSets

VARIABLES
    \* ---- transcript accumulation (processTranscription) ----
    transcript,        \* useState transcript: sequence of [role, text]
    currentInput,      \* currentInputRef.current
    currentOutput,     \* currentOutputRef.current
    pendingUpd,        \* setTranscript updaters enqueued and not yet run
    nEvents,           \* inbound messages handled so far
    turnIn,            \* history: the input fragments of the open turn
    turnHasOut,        \* history: the open turn has had an output fragment
    runAppends,        \* history: messages appended by this turn's updaters
    lastEvt,           \* history: what the last handled message was
    closedIn,          \* history: the input fragments of the turn last closed
    turnOut,           \* history: the output fragments of the open turn
    turnClosed,        \* history: a turn-complete signal has been processed
    sealed,            \* history: the messages the transcript held when the last
                       \* turn was closed and its updates had run
    \* ---- playback (playAudio) ----
    clock,             \* outputAudioContextRef.current.currentTime
    nextStartTime,     \* nextStartTimeRef.current
    outputQueue,       \* outputQueueRef.current
    isSpeaking,        \* useState isSpeaking
    decoding,          \* the playAudio calls suspended at their await: [chunk, dur]
    scheduled,         \* history: every source.start(startTime) call made
    nChunks,           \* audio chunks received so far
    \* ---- the session effect (startSession, callbacks, cleanup) ----
    mounted,              \* the LiveTutorView is mounted
    cur,                  \* the number of the latest run of the effect
    status,               \* useState status
    pc,                   \* per run: where startSession is
    isCancelled,          \* per run: the effect closure's isCancelled
    stream,               \* per run: the MediaStream getUserMedia gave
    inputCtx,             \* per run: the 16 kHz AudioContext
    outputCtx,            \* per run: the 24 kHz AudioContext
    nodes,                \* per run: the source and script processor nodes
    socket,               \* per run: the transport behind apiConnectLiveTutor
    socketErrored,        \* per run: the transport has reported an error
    sessionPromise,       \* per run: the promise apiConnectLiveTutor returned
    closeCalls,           \* per run: session.close() calls made
    closeQueued,          \* per run: .then(session => session.close()) waiting
    deferred,             \* per run: frames waiting on the session promise
    sent,                 \* per run: frames passed to session.sendRealtimeInput
    nCaptured,            \* frames captured so far (frame k is the k-th)
    everDeferred,         \* history: the frames that had to wait for the session
    sessionPromiseRef,    \* the refs: 0 is null, g is run g's object
    mediaStreamRef,
    inputAudioContextRef,
    outputAudioContextRef,
    audioNodesRef,
    \* ---- App: the view state machine and its background tasks ----
    view,                 \* useState view
    mode,                 \* useState mode ("null" is null)
    files,                \* useState files: per slot NoFile (null) or a File [type, size]
    error,                \* useState error ("null" is null)
    analysis,             \* useState analysis: [set, study_these]
    currentTopic,         \* useState currentTopic (NoTopic is null)
    quizQuestions,        \* useState quizQuestions: -1 is null, else the number of questions
    quizSummary,          \* useState quizSummary (NoSummary is null)
    isTutorActive,        \* useState isTutorActive
    highlightedTopicName, \* useState highlightedTopicName (0 is null)
    currentIndex,         \* QuizPage: useState currentIndex
    selectedAnswer,       \* QuizPage: an answer is selected for the current question
    score,                \* QuizPage: useState score
    incorrectQuestions,   \* QuizPage: useState incorrectQuestions, as the indices
                          \* of the questions recorded
    planCall,             \* handleGeneratePlan suspended at its await: [pending, files, mode]
    quizCall,             \* handleStartQuiz suspended at its await: the topic, or NoTopic
    reflectionCall,       \* handleFinishQuiz suspended at its await: [pending, score, total]
    notesTasks,           \* the notes tasks in flight: the topic each was launched with
    mnemonicTasks,        \* MnemonicStudio.handleGenerate calls in flight: their topic
    planGen,              \* history: the number of plans generated so far
    notesOutcome,         \* history: per topic name, how the latest plan's notes task
                          \* has ended since that plan arrived or the App was reset
    nRequests,            \* history: plans, quizzes and mnemonics requested so far
    sessionRestarted,     \* history: the overlay's session effect re-ran while mounted
    \* ---- the adaptive quiz continuation ----
    userAnswers,          \* QuizSession: per question answered, whether the answer was correct
    blockCall,            \* the second-block request: [state, difficulty, exclude]
    \* ---- api.ts: the audio helper functions ----
    sample,               \* a Float32Array element: the sample is sample / MaxStep
    blob,                 \* createBlob(...).data: the base64 digits, << >> before the call
    channelData,          \* decodeAudioData: <<v>> for the value v / 32768, << >> before the call
    \* ---- the upload page ----
    lastAdd,              \* history: the latest handleAddFile call: [file, index, tick]
    filesSeen,            \* the files of the render whose handlers the upload page
                          \* holds (followed in SpecSlots only)
    \* ---- the deferred transcript updates (followed in SpecDeferred only) ----
    heard,                \* history: per queued updater, the accumulator its event left
    \* ---- apiGenerateStudyNotes, server path (index.tsx 2956-2984) ----
    retryPc,              \* "idle", "await" (call in flight), "sleep", "returned", "thrown"
    retryI,               \* the loop variable i
    retryLog              \* history: per attempt made, [outcome, text, wait]: how it
                          \* ended, the text answered and the milliseconds waited after it

transcriptVars ==
    <<transcript, currentInput, currentOutput, pendingUpd, nEvents,
      turnIn, turnHasOut, runAppends, lastEvt, closedIn, turnOut, turnClosed, sealed>>

audioVars ==
    <<clock, nextStartTime, outputQueue, isSpeaking, decoding, scheduled, nChunks>>

transcriptAux ==
    <<currentInput, currentOutput, pendingUpd, nEvents,
      turnIn, turnHasOut, runAppends, lastEvt, closedIn, turnOut, turnClosed, sealed>>

runVars ==
    <<pc, isCancelled, stream, inputCtx, outputCtx, nodes, socket, socketErrored,
      sessionPromise, closeCalls, closeQueued, deferred, sent>>

refVars ==
    <<sessionPromiseRef, mediaStreamRef, inputAudioContextRef,
      outputAudioContextRef, audioNodesRef>>

sessionVars == <<mounted, cur, status, nCaptured, everDeferred, runVars, refVars>>

stateVars ==
    <<view, mode, files, error, analysis, currentTopic, quizQuestions,
      quizSummary, isTutorActive, highlightedTopicName>>

quizPageVars == <<currentIndex, selectedAnswer, score, incorrectQuestions>>

callVars == <<planCall, quizCall, reflectionCall, notesTasks, mnemonicTasks>>

appAux == <<planGen, notesOutcome, nRequests, sessionRestarted>>

adaptiveVars == <<userAnswers, blockCall>>

apiVars == <<sample, blob, channelData>>

uploadAux == <<lastAdd, filesSeen>>

retryVars == <<retryPc, retryI, retryLog>>

appVars ==
    <<stateVars, quizPageVars, callVars, appAux, adaptiveVars, apiVars, uploadAux,
      retryVars, heard>>

vars == <<transcriptVars, audioVars, sessionVars, appVars>>

----------------------------------------------------------------------------
(* Bounds of the model.                                                    *)

MaxEvents == 4
MaxChunks == 3
MaxClock == 4
MaxDur == 2
MaxRuns == 2
MaxFrames == 2
MaxTopics == 3
MaxListed == 1
MaxFiles == 1
MaxQuestions == 1
MaxRequests == 2
MaxBlock == 2
MaxStep == 64
MaxHeard == 3
MaxAsked == 3

----------------------------------------------------------------------------
(* Text.  A text is a sequence of characters; "" is << >>.                 *)

Whitespace == {" "}

\* String.prototype.trim() === '': every character is white space.
IsBlank(text) == \A i \in 1..Len(text) : text[i] \in Whitespace

\* The transcription fragments a message may carry.  << >> stands for a
\* missing (undefined) or empty fragment: both are falsy in the code.
InputChunks == { <<>>, <<"a">>, <<" ">> }
OutputChunks == { <<>>, <<"x">> }

RECURSIVE Flatten(_)
Flatten(ss) == IF ss = <<>> THEN <<>> ELSE Head(ss) \o Flatten(Tail(ss))

Last(s) == s[Len(s)]
Front(s) == SubSeq(s, 1, Len(s) - 1)

----------------------------------------------------------------------------
(* processTranscription: the three setTranscript updaters.  Each reads the *)
(* accumulator ref when it RUNS, which is when React processes the update  *)
(* queue, not when setTranscript is called.                                *)

\* A faulty input updater: it appends a message for every fragment.
UpdateUserAlwaysAppend(prev, acc) ==
    Append(prev, [role |-> "user", text |-> acc])

\* index.tsx 990-1000: the updater of the input branch.
UpdateUser(prev, acc) ==
    IF Len(prev) > 0 /\ Last(prev).role = "user"
    THEN Append(Front(prev), [Last(prev) EXCEPT !.text = acc])
    ELSE Append(prev, [role |-> "user", text |-> acc])

\* A faulty output updater: it rewrites the latest model message wherever
\* that message is in the transcript.
UpdateModelAnywhere(prev, acc) ==
    LET at == {i \in 1..Len(prev) : prev[i].role = "model"}
    IN  IF at # {}
        THEN LET k == CHOOSE i \in at : \A j \in at : j <= i
             IN  [prev EXCEPT ![k].text = acc]
        ELSE Append(prev, [role |-> "model", text |-> acc])

\* index.tsx 1005-1015: the updater of the output branch.
UpdateModel(prev, acc) ==
    IF Len(prev) > 0 /\ Last(prev).role = "model"
    THEN Append(Front(prev), [Last(prev) EXCEPT !.text = acc])
    ELSE Append(prev, [role |-> "model", text |-> acc])

\* A faulty prune: it compares the text with '' without trimming it.
PruneUntrimmed(prev) ==
    IF Len(prev) > 0 /\ Last(prev).role = "user" /\ Last(prev).text = <<>>
    THEN Front(prev)
    ELSE prev

\* index.tsx 1021-1027: the updater of the turn-complete branch.
PruneEmptyUser(prev) ==
    IF Len(prev) > 0 /\ Last(prev).role = "user" /\ IsBlank(Last(prev).text)
    THEN Front(prev)
    ELSE prev

\* One updater run against the refs as they are now.  "eager" is an update
\* whose result React computed when setTranscript was called.
RunUpdater(u, prev, inRef, outRef) ==
    CASE u.kind = "in"    -> UpdateUser(prev, inRef)
      [] u.kind = "out"   -> UpdateModel(prev, outRef)
      [] u.kind = "prune" -> PruneEmptyUser(prev)
      [] OTHER            -> prev

RECURSIVE RunAll(_, _, _, _)
RunAll(us, prev, inRef, outRef) ==
    IF us = <<>> THEN prev
    ELSE RunAll(Tail(us), RunUpdater(Head(us), prev, inRef, outRef), inRef, outRef)

\* history: how many messages the open turn's input updaters append.
RECURSIVE CountRunAppends(_, _, _, _)
CountRunAppends(us, prev, inRef, outRef) ==
    IF us = <<>> THEN 0
    ELSE LET nxt == RunUpdater(Head(us), prev, inRef, outRef)
         IN  (IF Head(us).kind = "in" /\ Head(us).open /\ Len(nxt) > Len(prev)
              THEN 1 ELSE 0)
             + CountRunAppends(Tail(us), nxt, inRef, outRef)

\* setTranscript(updater).  React runs the updater at once only when the
\* component has no update pending (eager state); otherwise, and whenever it
\* chooses, the updater waits for the next render.  st = [t, q].
SetTranscript(st, kind, eager, inRef, outRef) ==
    IF eager /\ st.q = <<>>
    THEN [t |-> RunUpdater([kind |-> kind, open |-> TRUE], st.t, inRef, outRef),
          q |-> <<[kind |-> "eager", open |-> TRUE]>>]
    ELSE [t |-> st.t, q |-> Append(st.q, [kind |-> kind, open |-> TRUE])]

CloseTurn(q) == [i \in 1..Len(q) |-> [q[i] EXCEPT !.open = FALSE]]

\* The queued updaters of turns that have been closed since: CloseTurn marks
\* the whole queue, so they run before any updater of the open turn.
ClosedPrefix(q) == SelectSeq(q, LAMBDA u : ~u.open)

\* Every setTranscript call made so far has had its updater run.
Applied(q) == \A i \in 1..Len(q) : q[i].kind = "eager"

\* A faulty reset: it sits inside the blank-input test of the branch.
ResetBlankOnly(isTurnComplete, acc) ==
    IF isTurnComplete /\ IsBlank(acc) THEN <<>> ELSE acc

\* index.tsx 1018, 1029-1031: what the turn-complete branch leaves in an
\* accumulator ref that holds acc.
Reset(isTurnComplete, acc) == IF isTurnComplete THEN <<>> ELSE acc

\* index.tsx 983-1033: processTranscription(message).
ProcessTranscription(inputChunk, outputChunk, isTurnComplete, eager) ==
    /\ nEvents < MaxEvents
    /\ nEvents' = nEvents + 1
    /\ LET in1  == IF inputChunk # <<>> THEN currentInput \o inputChunk
                   ELSE currentInput
           out1 == IF outputChunk # <<>> THEN currentOutput \o outputChunk
                   ELSE currentOutput
           s0   == [t |-> transcript, q |-> pendingUpd]
           s1   == IF inputChunk # <<>>
                   THEN SetTranscript(s0, "in", eager, in1, currentOutput)
                   ELSE s0
           s2   == IF outputChunk # <<>>
                   THEN SetTranscript(s1, "out", eager, in1, out1)
                   ELSE s1
           s3   == IF isTurnComplete /\ IsBlank(in1)
                   THEN SetTranscript(s2, "prune", eager, in1, out1)
                   ELSE s2
           grew == IF inputChunk # <<>> /\ Len(s1.t) > Len(transcript)
                   THEN 1 ELSE 0
       IN  /\ transcript' = s3.t
           /\ pendingUpd' = IF isTurnComplete THEN CloseTurn(s3.q) ELSE s3.q
           /\ currentInput' = Reset(isTurnComplete, in1)
           /\ currentOutput' = Reset(isTurnComplete, out1)
           /\ turnIn' = IF isTurnComplete THEN <<>>
                        ELSE IF inputChunk # <<>> THEN Append(turnIn, inputChunk)
                        ELSE turnIn
           /\ turnHasOut' = IF isTurnComplete THEN FALSE
                            ELSE (turnHasOut \/ outputChunk # <<>>)
           /\ runAppends' = IF isTurnComplete THEN 0 ELSE runAppends + grew
           /\ lastEvt' = IF isTurnComplete THEN "turnComplete" ELSE "fragment"
           /\ closedIn' = IF isTurnComplete
                          THEN (IF inputChunk # <<>> THEN Append(turnIn, inputChunk)
                                ELSE turnIn)
                          ELSE closedIn
           /\ turnOut' = IF isTurnComplete THEN <<>>
                         ELSE IF outputChunk # <<>> THEN Append(turnOut, outputChunk)
                         ELSE turnOut
           /\ turnClosed' = (turnClosed \/ isTurnComplete)
           /\ sealed' = IF isTurnComplete /\ Applied(s3.q) THEN Len(s3.t) ELSE sealed

\* React renders LiveTutorView: the queued updaters run in order, each
\* reading the refs as they are at this moment.
Render ==
    /\ pendingUpd # <<>>
    /\ transcript' = RunAll(pendingUpd, transcript, currentInput, currentOutput)
    /\ runAppends' = runAppends
           + CountRunAppends(pendingUpd, transcript, currentInput, currentOutput)
    /\ pendingUpd' = <<>>
    /\ sealed' = IF ClosedPrefix(pendingUpd) # <<>>
                 THEN Len(RunAll(ClosedPrefix(pendingUpd), transcript,
                                 currentInput, currentOutput))
                 ELSE sealed
    /\ UNCHANGED <<currentInput, currentOutput, nEvents, turnIn, turnHasOut,
                   lastEvt, closedIn, turnOut, turnClosed>>

InitAccumulators ==
    /\ currentInput = <<>>
    /\ currentOutput = <<>>
    /\ pendingUpd = <<>>
    /\ nEvents = 0
    /\ turnIn = <<>>
    /\ turnHasOut = FALSE
    /\ runAppends = 0
    /\ lastEvt = "none"
    /\ closedIn = <<>>
    /\ turnOut = <<>>
    /\ turnClosed = FALSE
    /\ sealed = 0

OnMessageTranscript ==
    /\ \E i \in InputChunks, o \in OutputChunks, tc \in BOOLEAN, eager \in BOOLEAN :
          ProcessTranscription(i, o, tc, eager)
    /\ UNCHANGED <<audioVars, sessionVars, appVars>>

RenderTranscript == Render /\ UNCHANGED <<audioVars, sessionVars, appVars>>

\* The accumulator an updater's event left behind its own branch: the input
\* ref for the input updater, the output ref for the output updater.
HeardBy(u, in1, out1) ==
    CASE u.kind = "in"  -> in1
      [] u.kind = "out" -> out1
      [] OTHER          -> <<>>

\* processTranscription with, for every updater it leaves queued, the
\* accumulator its branch had just written (index.tsx 989, 1004).
OnMessageHeard ==
    /\ nEvents < MaxHeard
    /\ \E i \in InputChunks, o \in OutputChunks, tc \in BOOLEAN, eager \in BOOLEAN :
          /\ ProcessTranscription(i, o, tc, eager)
          /\ LET in1  == IF i # <<>> THEN currentInput \o i ELSE currentInput
                 out1 == IF o # <<>> THEN currentOutput \o o ELSE currentOutput
                 new  == SubSeq(pendingUpd', Len(heard) + 1, Len(pendingUpd'))
             IN  heard' = heard \o [k \in 1..Len(new) |-> HeardBy(new[k], in1, out1)]
    /\ UNCHANGED <<audioVars, sessionVars, stateVars, quizPageVars, callVars, appAux,
                   adaptiveVars, apiVars, uploadAux, retryVars>>

RenderHeard ==
    /\ Render
    /\ heard' = <<>>
    /\ UNCHANGED <<audioVars, sessionVars, stateVars, quizPageVars, callVars, appAux,
                   adaptiveVars, apiVars, uploadAux, retryVars>>

\* The queued updaters run with the accumulators their events left.
RECURSIVE RunAllHeard(_, _, _)
RunAllHeard(us, hs, prev) ==
    IF us = <<>> THEN prev
    ELSE RunAllHeard(Tail(us), Tail(hs), RunUpdater(Head(us), prev, Head(hs), Head(hs)))

----------------------------------------------------------------------------
(* playAudio.  Times are whole ticks of the output clock.                   *)

Max(a, b) == IF a >= b THEN a ELSE b

\* The durations of the decoded buffers (createBuffer rejects a length of 0).
Durations == 1..MaxDur

\* A faulty start time: the clock is ignored.
StartTimeCursor(now, cursor) == cursor

\* A faulty start time: the cursor is ignored.
StartTimeNow(now, cursor) == now

\* index.tsx 1045: const startTime = Math.max(now, nextStartTimeRef.current).
StartTime(now, cursor) == Max(now, cursor)

\* A faulty event loop: a task starts while a playAudio call is suspended.
NoCallSuspendedOrSome(calls) == TRUE

\* api.ts 138-155, index.tsx 1039: decodeAudioData has no await of its own,
\* so its promise is resolved when it returns and the continuation of
\* playAudio runs in the microtask checkpoint of the task that called it.  A
\* later task (a message, an ended event) finds no call suspended.
NoCallSuspended(calls) == calls = <<>>

\* The continuation that runs next when several calls are suspended: a
\* decode is asynchronous, any of them may be resumed first.
Resumable(calls) == 1..Len(calls)

RemoveAt(q, k) == SubSeq(q, 1, k - 1) \o SubSeq(q, k + 1, Len(q))

\* index.tsx 1035-1039: playAudio up to its await of decodeAudioData.  The
\* guard is the early return on a missing output context, which exists from
\* before the transport is opened; one message is handled at a time.
PlayAudioBegin(d) ==
    /\ outputAudioContextRef # 0
    /\ nChunks < MaxChunks
    /\ NoCallSuspended(decoding)
    /\ nChunks' = nChunks + 1
    /\ isSpeaking' = TRUE
    /\ decoding' = Append(decoding, [chunk |-> nChunks + 1, dur |-> d])
    /\ UNCHANGED <<clock, nextStartTime, outputQueue, scheduled>>

\* index.tsx 1035-1039 with a payload that does not decode: atob throws in
\* decode (api.ts 128) on a string that is not base64, and new Int16Array
\* throws in decodeAudioData (api.ts 144) on an odd number of bytes.  The
\* call ends in a rejected promise after setIsSpeaking(true), before any
\* buffer is scheduled.
PlayAudioThrows ==
    /\ outputAudioContextRef # 0
    /\ nChunks < MaxChunks
    /\ NoCallSuspended(decoding)
    /\ nChunks' = nChunks + 1
    /\ isSpeaking' = TRUE
    /\ UNCHANGED <<clock, nextStartTime, outputQueue, decoding, scheduled>>

\* index.tsx 1040-1057: playAudio after the await: schedule the buffer.
PlayAudioSchedule ==
    /\ \E k \in Resumable(decoding) :
          LET call      == decoding[k]
              now       == clock
              startTime == StartTime(now, nextStartTime)
          IN  /\ scheduled' = Append(scheduled,
                                  [start |-> startTime, dur |-> call.dur,
                                   now |-> now, chunk |-> call.chunk])
              /\ nextStartTime' = startTime + call.dur
              /\ outputQueue' = Append(outputQueue,
                                    [start |-> startTime, dur |-> call.dur])
              /\ decoding' = RemoveAt(decoding, k)
    /\ UNCHANGED <<clock, isSpeaking, nChunks>>

\* index.tsx 1052-1057: source.onended, fired once the head source has
\* played to its end; the decode continuation is a microtask, so no ended
\* event is delivered while playAudio is suspended.
OnEnded ==
    /\ NoCallSuspended(decoding)
    /\ outputQueue # <<>>
    /\ clock >= Head(outputQueue).start + Head(outputQueue).dur
    /\ outputQueue' = Tail(outputQueue)
    /\ isSpeaking' = IF Tail(outputQueue) = <<>> THEN FALSE ELSE isSpeaking
    /\ UNCHANGED <<clock, nextStartTime, decoding, scheduled, nChunks>>

\* The audio hardware advances currentTime.
Tick ==
    /\ clock < MaxClock
    /\ clock' = clock + 1
    /\ UNCHANGED <<nextStartTime, outputQueue, isSpeaking, decoding, scheduled, nChunks>>

InitAudio ==
    /\ clock = 0
    /\ nextStartTime = 0
    /\ outputQueue = <<>>
    /\ isSpeaking = FALSE
    /\ decoding = <<>>
    /\ scheduled = <<>>
    /\ nChunks = 0

OnAudioChunk == (\E d \in Durations : PlayAudioBegin(d)) /\ UNCHANGED <<transcriptVars, sessionVars, appVars>>
OnBadAudioChunk == PlayAudioThrows /\ UNCHANGED <<transcriptVars, sessionVars, appVars>>
AudioScheduled == PlayAudioSchedule /\ UNCHANGED <<transcriptVars, sessionVars, appVars>>
AudioEnded == OnEnded /\ UNCHANGED <<transcriptVars, sessionVars, appVars>>
ClockTick == Tick /\ UNCHANGED <<transcriptVars, sessionVars, appVars>>

----------------------------------------------------------------------------
(* The session effect of LiveTutorView (index.tsx 1060-1144).  The effect  *)
(* runs on mount and again whenever the topic prop is replaced; run g has  *)
(* its own isCancelled and its own resources, while the refs are shared by *)
(* all runs of the mounted component.                                      *)

Runs == 1..MaxRuns

\* A resource is "none" (never acquired), "held", "released", or
\* "releasedAgain" (stop / disconnect / close called on it once more).
Released(x) ==
    CASE x = "held"     -> "released"
      [] x = "released" -> "releasedAgain"
      [] OTHER          -> x

\* A faulty teardown step: the resource is left as it is.
ReleaseSkipped(ref, res) == res

\* A teardown step through a ref: skipped when the ref is null.
ReleaseVia(ref, res) ==
    IF ref = 0 THEN res ELSE [res EXCEPT ![ref] = Released(res[ref])]

\* index.tsx 979-981: addMessage.
AddMessage(t, role, text) == Append(t, [role |-> role, text |-> text])

MsgRequesting  == <<"Requesting microphone access...">>
MsgConnecting  == <<"Connecting to Live Tutor...">>
MsgEstablished == <<"Connection established. You can start speaking.">>
MsgTransportError == <<"An error occurred: ... Please try again.">>
MsgMicError ==
    <<"Could not access microphone. Please check your browser permissions and try again.">>

\* A faulty catch block: the failure is reported as a closed session.
CatchBlockDisconnected(g) ==
    /\ status' = "disconnected"
    /\ transcript' = AddMessage(transcript, "status", MsgMicError)
    /\ pc' = [pc EXCEPT ![g] = "caught"]

\* index.tsx 1120-1124: the catch block of startSession.
CatchBlock(g) ==
    /\ status' = "error"
    /\ transcript' = AddMessage(transcript, "status", MsgMicError)
    /\ pc' = [pc EXCEPT ![g] = "caught"]

\* index.tsx 1066-1079: getUserMedia resolves.  A cancelled run stops the
\* tracks and returns.  Otherwise the stream is stored and the two audio
\* contexts are constructed; a constructor that throws is caught (outcome
\* "inputCtxThrows" / "outputCtxThrows"); then the transport is requested.
MicGranted(g, outcome) ==
    /\ pc[g] = "mic"
    /\ IF isCancelled[g]
       THEN /\ stream' = [stream EXCEPT ![g] = "released"]
            /\ pc' = [pc EXCEPT ![g] = "returned"]
            /\ UNCHANGED <<status, transcript, inputCtx, outputCtx, socket,
                           sessionPromise, mediaStreamRef, inputAudioContextRef,
                           outputAudioContextRef, sessionPromiseRef>>
       ELSE /\ stream' = [stream EXCEPT ![g] = "held"]
            /\ mediaStreamRef' = g
            /\ CASE outcome = "inputCtxThrows" ->
                      /\ CatchBlock(g)
                      /\ UNCHANGED <<inputCtx, outputCtx, socket, sessionPromise,
                                     inputAudioContextRef, outputAudioContextRef,
                                     sessionPromiseRef>>
                 [] outcome = "outputCtxThrows" ->
                      /\ inputCtx' = [inputCtx EXCEPT ![g] = "held"]
                      /\ inputAudioContextRef' = g
                      /\ CatchBlock(g)
                      /\ UNCHANGED <<outputCtx, socket, sessionPromise,
                                     outputAudioContextRef, sessionPromiseRef>>
                 [] OTHER ->
                      /\ inputCtx' = [inputCtx EXCEPT ![g] = "held"]
                      /\ inputAudioContextRef' = g
                      /\ outputCtx' = [outputCtx EXCEPT ![g] = "held"]
                      /\ outputAudioContextRef' = g
                      /\ transcript' = AddMessage(transcript, "status", MsgConnecting)
                      /\ socket' = [socket EXCEPT ![g] = "connecting"]
                      /\ sessionPromise' = [sessionPromise EXCEPT ![g] = "pending"]
                      /\ sessionPromiseRef' = g
                      /\ pc' = [pc EXCEPT ![g] = "conn"]
                      /\ UNCHANGED status
    /\ UNCHANGED <<mounted, cur, nCaptured, everDeferred, isCancelled, nodes, socketErrored,
                   closeCalls, closeQueued, deferred, sent, audioNodesRef>>

\* index.tsx 1066, 1120-1124: getUserMedia rejects.
MicDenied(g) ==
    /\ pc[g] = "mic"
    /\ CatchBlock(g)
    /\ UNCHANGED <<mounted, cur, nCaptured, everDeferred, isCancelled, stream, inputCtx,
                   outputCtx, nodes, socket, socketErrored, sessionPromise,
                   closeCalls, closeQueued, deferred, sent, refVars>>

\* A faulty onopen: isCancelled is not consulted.
OnOpenUnchecked(g) ==
    /\ status' = "connected"
    /\ transcript' = AddMessage(transcript, "status", MsgEstablished)
    /\ nodes' = [nodes EXCEPT ![g] = "held"]
    /\ audioNodesRef' = g

\* index.tsx 1080-1099: onopen.
OnOpen(g) ==
    IF isCancelled[g]
    THEN UNCHANGED <<status, transcript, nodes, audioNodesRef>>
    ELSE /\ status' = "connected"
         /\ transcript' = AddMessage(transcript, "status", MsgEstablished)
         /\ nodes' = [nodes EXCEPT ![g] = "held"]
         /\ audioNodesRef' = g

\* The transport of run g opens and calls onopen.
TransportOpen(g) ==
    /\ socket[g] = "connecting"
    /\ socket' = [socket EXCEPT ![g] = "open"]
    /\ OnOpen(g)
    /\ UNCHANGED <<mounted, cur, nCaptured, everDeferred, pc, isCancelled, stream, inputCtx,
                   outputCtx, socketErrored, sessionPromise, closeCalls,
                   closeQueued, deferred, sent, sessionPromiseRef, mediaStreamRef,
                   inputAudioContextRef, outputAudioContextRef>>

\* session.close(): the transport starts closing.
Closing(x) == IF x = "open" THEN "closing" ELSE x

\* The promise of run g resolves with the session, after the transport has
\* opened.  Its reactions run in the order they were registered: the await
\* of startSession (index.tsx 1117), the sends of the frames captured
\* meanwhile (1091-1093), the close a cleanup asked for (1132).
SessionResolve(g) ==
    /\ sessionPromise[g] = "pending"
    /\ socket[g] \in {"open", "closed"}
    /\ sessionPromise' = [sessionPromise EXCEPT ![g] = "resolved"]
    /\ pc' = [pc EXCEPT ![g] = "done"]
    /\ sent' = [sent EXCEPT ![g] = sent[g] \o deferred[g]]
    /\ deferred' = [deferred EXCEPT ![g] = <<>>]
    /\ closeCalls' = [closeCalls EXCEPT ![g] = closeCalls[g] + closeQueued[g]]
    /\ closeQueued' = [closeQueued EXCEPT ![g] = 0]
    /\ socket' = [socket EXCEPT ![g] =
                     IF closeQueued[g] > 0 THEN Closing(socket[g]) ELSE socket[g]]
    /\ UNCHANGED <<mounted, cur, status, transcript, nCaptured, everDeferred,
                   isCancelled, stream, inputCtx, outputCtx, nodes, socketErrored,
                   refVars>>

\* The connection attempt of run g fails before the transport opens: the
\* promise rejects and the await of index.tsx 1117 throws into the catch.
ConnectReject(g) ==
    /\ sessionPromise[g] = "pending"
    /\ socket[g] = "connecting"
    /\ sessionPromise' = [sessionPromise EXCEPT ![g] = "rejected"]
    /\ socket' = [socket EXCEPT ![g] = "failed"]
    /\ CatchBlock(g)
    /\ UNCHANGED <<mounted, cur, nCaptured, everDeferred, isCancelled, stream, inputCtx,
                   outputCtx, nodes, socketErrored, closeCalls, closeQueued,
                   deferred, sent, refVars>>

\* index.tsx 1107-1111: onerror.  A transport reports an error once, while
\* it is connecting or open.
TransportError(g) ==
    /\ socket[g] \in {"connecting", "open", "closing"}
    /\ ~socketErrored[g]
    /\ socketErrored' = [socketErrored EXCEPT ![g] = TRUE]
    /\ status' = "error"
    /\ transcript' = AddMessage(transcript, "status", MsgTransportError)
    /\ UNCHANGED <<mounted, cur, nCaptured, everDeferred, pc, isCancelled, stream, inputCtx,
                   outputCtx, nodes, socket, sessionPromise, closeCalls,
                   closeQueued, deferred, sent, refVars>>

\* index.tsx 1112-1114: onclose.  The transport closes: on the peer's
\* initiative, after an error, or after session.close().
TransportClose(g) ==
    /\ socket[g] \in {"connecting", "open", "closing"}
    /\ socket' = [socket EXCEPT ![g] =
                     IF socket[g] = "connecting" THEN "failed" ELSE "closed"]
    /\ status' = "disconnected"
    /\ UNCHANGED <<mounted, cur, transcript, nCaptured, everDeferred, pc,
                   isCancelled, stream, inputCtx, outputCtx, nodes, socketErrored,
                   sessionPromise, closeCalls, closeQueued, deferred, sent, refVars>>

\* index.tsx 1129-1143: the cleanup of run g, through the refs as they are.
Cleanup(g) ==
    /\ isCancelled' = [isCancelled EXCEPT ![g] = TRUE]
    /\ LET p == sessionPromiseRef
       IN  IF p # 0 /\ sessionPromise[p] = "resolved"
           THEN /\ closeCalls' = [closeCalls EXCEPT ![p] = closeCalls[p] + 1]
                /\ socket' = [socket EXCEPT ![p] = Closing(socket[p])]
                /\ UNCHANGED closeQueued
           ELSE IF p # 0 /\ sessionPromise[p] = "pending"
           THEN /\ closeQueued' = [closeQueued EXCEPT ![p] = closeQueued[p] + 1]
                /\ UNCHANGED <<closeCalls, socket>>
           ELSE UNCHANGED <<closeCalls, closeQueued, socket>>
    /\ stream' = ReleaseVia(mediaStreamRef, stream)
    /\ nodes' = ReleaseVia(audioNodesRef, nodes)
    /\ inputCtx' = ReleaseVia(inputAudioContextRef, inputCtx)
    /\ outputCtx' = ReleaseVia(outputAudioContextRef, outputCtx)

\* The overlay is unmounted (end session, back, reset): the cleanup of the
\* latest run.
Unmount ==
    /\ mounted
    /\ mounted' = FALSE
    /\ Cleanup(cur)
    /\ UNCHANGED <<cur, status, transcript, nCaptured, everDeferred, pc,
                   socketErrored, sessionPromise, deferred, sent, refVars>>

\* index.tsx 1144 (deps [topic, ...]) with 1291 (updateTopicInList replaces
\* currentTopic by a new object): the cleanup of the latest run, then the
\* effect again: startSession up to its first await (1065-1066).
TopicReplaced ==
    /\ mounted
    /\ cur < MaxRuns
    /\ Cleanup(cur)
    /\ cur' = cur + 1
    /\ pc' = [pc EXCEPT ![cur + 1] = "mic"]
    /\ transcript' = AddMessage(transcript, "status", MsgRequesting)
    /\ UNCHANGED <<mounted, status, nCaptured, everDeferred, socketErrored,
                   sessionPromise, deferred, sent, refVars>>

\* A faulty send: a frame captured before the session is there is lost.
SendWhenReadyOrDrop(promise, s, d, frame) ==
    IF promise = "resolved"
    THEN [sent |-> Append(s, frame), deferred |-> d]
    ELSE [sent |-> s, deferred |-> d]

\* index.tsx 1091-1093: sessionPromiseRef.current.then(session =>
\* session.sendRealtimeInput(...)).  On a resolved promise the reaction runs
\* in the microtask that follows; on a pending one it waits behind the
\* reactions registered before it; on a rejected one it never runs.
SendWhenReady(promise, s, d, frame) ==
    CASE promise = "resolved" -> [sent |-> Append(s, frame), deferred |-> d]
      [] promise = "pending"  -> [sent |-> s, deferred |-> Append(d, frame)]
      [] OTHER                -> [sent |-> s, deferred |-> d]

\* index.tsx 1088-1094: onaudioprocess.  Frames arrive while the capture
\* nodes are connected in a running input context.
OnAudioProcess(g) ==
    /\ nodes[g] = "held"
    /\ inputCtx[g] = "held"
    /\ nCaptured < MaxFrames
    /\ nCaptured' = nCaptured + 1
    /\ LET p == sessionPromiseRef
           r == SendWhenReady(sessionPromise[p], sent[p], deferred[p], nCaptured + 1)
       IN  /\ sent' = [sent EXCEPT ![p] = r.sent]
           /\ deferred' = [deferred EXCEPT ![p] = r.deferred]
           /\ everDeferred' = IF sessionPromise[p] = "pending"
                              THEN everDeferred \cup {nCaptured + 1}
                              ELSE everDeferred
    /\ UNCHANGED <<mounted, cur, status, transcript, pc, isCancelled, stream,
                   inputCtx, outputCtx, nodes, socket, socketErrored,
                   sessionPromise, closeCalls, closeQueued, refVars>>

\* index.tsx 958-972, 1127: the component has mounted and the effect has
\* run once: startSession waits for the microphone.
InitSession ==
    /\ mounted = TRUE
    /\ cur = 1
    /\ status = "connecting"
    /\ nCaptured = 0
    /\ everDeferred = {}
    /\ pc = [g \in Runs |-> IF g = 1 THEN "mic" ELSE "idle"]
    /\ isCancelled = [g \in Runs |-> FALSE]
    /\ stream = [g \in Runs |-> "none"]
    /\ inputCtx = [g \in Runs |-> "none"]
    /\ outputCtx = [g \in Runs |-> "none"]
    /\ nodes = [g \in Runs |-> "none"]
    /\ socket = [g \in Runs |-> "none"]
    /\ socketErrored = [g \in Runs |-> FALSE]
    /\ sessionPromise = [g \in Runs |-> "none"]
    /\ closeCalls = [g \in Runs |-> 0]
    /\ closeQueued = [g \in Runs |-> 0]
    /\ deferred = [g \in Runs |-> <<>>]
    /\ sent = [g \in Runs |-> <<>>]
    /\ sessionPromiseRef = 0
    /\ mediaStreamRef = 0
    /\ inputAudioContextRef = 0
    /\ outputAudioContextRef = 0
    /\ audioNodesRef = 0

\* The transcript once the session has connected (index.tsx 1065, 1077, 1083).
StartupMessages ==
    << [role |-> "status", text |-> MsgRequesting],
       [role |-> "status", text |-> MsgConnecting],
       [role |-> "status", text |-> MsgEstablished] >>

\* The first run has connected: microphone granted, contexts built, transport
\* open, session resolved.  Inbound messages arrive from this state on.
InitSessionConnected ==
    /\ mounted = TRUE
    /\ cur = 1
    /\ status = "connected"
    /\ nCaptured = 0
    /\ everDeferred = {}
    /\ pc = [g \in Runs |-> IF g = 1 THEN "done" ELSE "idle"]
    /\ isCancelled = [g \in Runs |-> FALSE]
    /\ stream = [g \in Runs |-> IF g = 1 THEN "held" ELSE "none"]
    /\ inputCtx = [g \in Runs |-> IF g = 1 THEN "held" ELSE "none"]
    /\ outputCtx = [g \in Runs |-> IF g = 1 THEN "held" ELSE "none"]
    /\ nodes = [g \in Runs |-> IF g = 1 THEN "held" ELSE "none"]
    /\ socket = [g \in Runs |-> IF g = 1 THEN "open" ELSE "none"]
    /\ socketErrored = [g \in Runs |-> FALSE]
    /\ sessionPromise = [g \in Runs |-> IF g = 1 THEN "resolved" ELSE "none"]
    /\ closeCalls = [g \in Runs |-> 0]
    /\ closeQueued = [g \in Runs |-> 0]
    /\ deferred = [g \in Runs |-> <<>>]
    /\ sent = [g \in Runs |-> <<>>]
    /\ sessionPromiseRef = 1
    /\ mediaStreamRef = 1
    /\ inputAudioContextRef = 1
    /\ outputAudioContextRef = 1
    /\ audioNodesRef = 1

StartupOutcomes == {"ok", "inputCtxThrows", "outputCtxThrows"}

others == <<transcriptAux, audioVars, appVars>>

GetUserMediaResolves ==
    (\E g \in Runs, o \in StartupOutcomes : MicGranted(g, o)) /\ UNCHANGED others
GetUserMediaRejects == (\E g \in Runs : MicDenied(g)) /\ UNCHANGED others
TransportOpens == (\E g \in Runs : TransportOpen(g)) /\ UNCHANGED others
SessionResolves == (\E g \in Runs : SessionResolve(g)) /\ UNCHANGED others
ConnectRejects == (\E g \in Runs : ConnectReject(g)) /\ UNCHANGED others
TransportErrors == (\E g \in Runs : TransportError(g)) /\ UNCHANGED others
TransportCloses == (\E g \in Runs : TransportClose(g)) /\ UNCHANGED others
FrameCaptured == (\E g \in Runs : OnAudioProcess(g)) /\ UNCHANGED others
Unmounts == Unmount /\ UNCHANGED others
TopicChanges == TopicReplaced /\ UNCHANGED others

----------------------------------------------------------------------------
(* App: the view state machine (index.tsx 1201-1459).                      *)

Views == {"home", "upload", "loading", "results", "study", "quiz", "quiz-summary"}

Modes == {"calm"}

\* useState<(File | null)[]>([null, null, null])
NumSlots == 3

\* The topics of a plan are named 1, 2, ... in the order the plan lists them;
\* two plans share the names they have in common.
TopicNames == 1..MaxTopics

\* A Topic.  notes: "pending" (undefined), "ready" (generated notes),
\* "failed" (the "Error: ..." marker) or one of BlankTexts.  gen stands for the rest of the
\* object (reason, key_points): the plan that produced it.
NewTopic(name, g) ==
    [topic |-> name, notes |-> "pending", mnemonic |-> FALSE, gen |-> g]

NoTopic == NewTopic(0, 0)

NoAnalysis == [set |-> FALSE, study_these |-> <<>>]

NoSummary == [score |-> -1, total |-> -1, reflection |-> "null"]

\* A File is its MIME type, <<type, subtype>>, and its size in bytes.
NoFile == [type |-> <<"null", "null">>, size |-> 0]

NoFiles == [i \in 1..NumSlots |-> NoFile]

\* A small PDF and a small video.
PdfFile == [type |-> <<"application", "pdf">>, size |-> 1]
VideoFile == [type |-> <<"video", "mp4">>, size |-> 1]

\* No handleAddFile call has been made.
NoAdd == [file |-> NoFile, index |-> 0, tick |-> FALSE]

NoCall == [pending |-> FALSE, files |-> NoFiles, mode |-> "null"]

NoReflection == [pending |-> FALSE, score |-> 0, total |-> 0]

\* No second block of questions has been requested.
NoBlock == [state |-> "idle", difficulty |-> "null", exclude |-> 0]

ErrPlan == "Sorry, I couldn't generate a study plan."
ErrQuiz == "Sorry, I couldn't create a quiz for this topic."

\* index.tsx 1454-1456: the overlay is rendered, and its LiveTutorView
\* mounted, exactly while both hold.
OverlayMounted(active, topic) == active /\ topic # NoTopic

\* index.tsx 1060, 1144: the session effect depends on the topic object.
\* While the overlay stays mounted, a different topic object cleans the
\* effect up and runs it again; replaced says the object was replaced by a
\* new one (equal or not).
OverlayCommit(replaced) ==
    sessionRestarted' =
        IF OverlayMounted(isTutorActive, currentTopic)
           /\ OverlayMounted(isTutorActive', currentTopic')
        THEN sessionRestarted \/ replaced \/ currentTopic' # currentTopic
        ELSE FALSE

\* index.tsx 838-841: QuizPage's state when it mounts.
QuizPageMount ==
    /\ currentIndex' = 0
    /\ selectedAnswer' = FALSE
    /\ score' = 0
    /\ incorrectQuestions' = <<>>

\* The setAnalysis updater without its name test.
MergeAnalysisAll(prev, updatedTopic) ==
    IF ~prev.set THEN NoAnalysis
    ELSE [prev EXCEPT !.study_these = [i \in DOMAIN @ |-> updatedTopic]]

\* The setAnalysis updater starting a list when there is no analysis.
MergeAnalysisRevives(prev, updatedTopic) ==
    IF ~prev.set THEN [set |-> TRUE, study_these |-> <<updatedTopic>>]
    ELSE [prev EXCEPT !.study_these =
            [i \in DOMAIN @ |->
                IF @[i].topic = updatedTopic.topic THEN updatedTopic ELSE @[i]]]

\* The setAnalysis updater dropping the topic it should replace.
MergeAnalysisDrops(prev, updatedTopic) ==
    IF ~prev.set THEN NoAnalysis
    ELSE [prev EXCEPT !.study_these =
            SelectSeq(@, LAMBDA t : t.topic # updatedTopic.topic)]

\* index.tsx 1283-1289: the setAnalysis updater.
MergeAnalysis(prev, updatedTopic) ==
    IF ~prev.set THEN NoAnalysis
    ELSE [prev EXCEPT !.study_these =
            [i \in DOMAIN @ |->
                IF @[i].topic = updatedTopic.topic THEN updatedTopic ELSE @[i]]]

\* index.tsx 1291: the setCurrentTopic updater.
MergeCurrent(prev, updatedTopic) ==
    IF prev # NoTopic /\ prev.topic = updatedTopic.topic THEN updatedTopic ELSE prev

\* index.tsx 1282-1292
UpdateTopicInList(updatedTopic) ==
    /\ analysis' = MergeAnalysis(analysis, updatedTopic)
    /\ currentTopic' = MergeCurrent(currentTopic, updatedTopic)
    /\ UNCHANGED isTutorActive
    /\ OverlayCommit(MergeCurrent(currentTopic, updatedTopic) = updatedTopic)

\* index.tsx 1238-1241
HandleSelectMode(selectedMode) ==
    /\ view = "home"
    /\ mode' = selectedMode
    /\ view' = "upload"
    /\ UNCHANGED <<files, error, analysis, currentTopic, quizQuestions, quizSummary,
                   isTutorActive, highlightedTopicName, quizPageVars, callVars, appAux>>

\* index.tsx 1243-1246
HandleBackToHome ==
    /\ view = "upload"
    /\ mode' = "null"
    /\ view' = "home"
    /\ UNCHANGED <<files, error, analysis, currentTopic, quizQuestions, quizSummary,
                   isTutorActive, highlightedTopicName, quizPageVars, callVars, appAux>>

\* The slots that hold a file.
ValidFiles(f) == {i \in 1..NumSlots : f[i] # NoFile}

\* index.tsx 30-42
ALLOWED_MIME_TYPES ==
    { <<"application", "pdf">>, <<"text", "plain">>,
      <<"image", "jpeg">>, <<"image", "png">>, <<"image", "gif">>, <<"image", "webp">>,
      <<"audio", "mpeg">>, <<"audio", "mp3">>, <<"audio", "wav">>, <<"audio", "mp4">>,
      <<"audio", "x-m4a">> }

\* index.tsx 43-44
MAX_FILE_SIZE_AUDIO == 20 * 1024 * 1024
MAX_FILE_SIZE_DEFAULT == 10 * 1024 * 1024

\* index.tsx 1262-1263: the limit of the file's type.
MaxSizeOf(type) ==
    IF type[1] = "audio" THEN MAX_FILE_SIZE_AUDIO ELSE MAX_FILE_SIZE_DEFAULT

\* The validation with the default limit for every type.
PassesValidationOneLimit(file) ==
    /\ file.type \in ALLOWED_MIME_TYPES
    /\ file.size <= MAX_FILE_SIZE_DEFAULT

\* index.tsx 1257-1269: neither early return is taken.
PassesValidation(file) ==
    /\ file.type \in ALLOWED_MIME_TYPES
    /\ file.size <= MaxSizeOf(file.type)

\* index.tsx 1255-1274: a file that fails validation changes nothing.  The
\* user fills at most MaxFiles slots.
HandleAddFile(file, index) ==
    /\ view = "upload"
    /\ PassesValidation(file) => Cardinality(ValidFiles(files) \cup {index}) <= MaxFiles
    /\ files' = IF PassesValidation(file) THEN [files EXCEPT ![index] = file] ELSE files
    /\ UNCHANGED <<view, mode, error, analysis, currentTopic, quizQuestions, quizSummary,
                   isTutorActive, highlightedTopicName, quizPageVars, callVars, appAux>>

\* index.tsx 1276-1280
HandleRemoveFile(index) ==
    /\ view = "upload"
    /\ files[index] # NoFile
    /\ files' = [files EXCEPT ![index] = NoFile]
    /\ UNCHANGED <<view, mode, error, analysis, currentTopic, quizQuestions, quizSummary,
                   isTutorActive, highlightedTopicName, quizPageVars, callVars, appAux>>

\* index.tsx 1225-1236: "Start Over" on the results page.
HandleReset ==
    /\ view = "results"
    /\ view' = "home"
    /\ mode' = "null"
    /\ files' = NoFiles
    /\ error' = "null"
    /\ analysis' = NoAnalysis
    /\ currentTopic' = NoTopic
    /\ quizQuestions' = -1
    /\ quizSummary' = NoSummary
    /\ highlightedTopicName' = 0
    /\ isTutorActive' = FALSE
    /\ notesOutcome' = [name \in TopicNames |-> "none"]
    /\ UNCHANGED <<quizPageVars, callVars, planGen, nRequests>>
    /\ OverlayCommit(FALSE)

\* A faulty handleBackToResults: the page stays while its state is cleared.
HandleBackToResultsKeepsView ==
    /\ highlightedTopicName' = currentTopic.topic
    /\ view' = view
    /\ currentTopic' = NoTopic
    /\ quizQuestions' = -1
    /\ QuizPageMount
    /\ UNCHANGED <<mode, files, error, analysis, quizSummary, isTutorActive,
                   callVars, planGen, notesOutcome, nRequests>>
    /\ OverlayCommit(FALSE)

\* index.tsx 1248-1253: leaving the quiz unmounts QuizPage.
HandleBackToResults ==
    /\ highlightedTopicName' = currentTopic.topic
    /\ view' = "results"
    /\ currentTopic' = NoTopic
    /\ quizQuestions' = -1
    /\ QuizPageMount
    /\ UNCHANGED <<mode, files, error, analysis, quizSummary, isTutorActive,
                   callVars, planGen, notesOutcome, nRequests>>
    /\ OverlayCommit(FALSE)

\* The "Back to Plan" buttons of StudyPage, QuizPage and QuizSummaryPage.
OnBack ==
    /\ view \in {"study", "quiz", "quiz-summary"}
    /\ HandleBackToResults

\* index.tsx 488-497: the highlight is dropped three seconds after the
\* results page shows the highlighted topic.
HighlightExpires ==
    /\ view = "results"
    /\ highlightedTopicName # 0
    /\ analysis.set
    /\ \E i \in DOMAIN analysis.study_these :
          analysis.study_these[i].topic = highlightedTopicName
    /\ highlightedTopicName' = 0
    /\ UNCHANGED <<view, mode, files, error, analysis, currentTopic, quizQuestions,
                   quizSummary, isTutorActive, quizPageVars, callVars, appAux>>

\* index.tsx 1294-1300: up to the await.  The button is disabled, and the
\* handler returns at once, when no slot holds a file.
HandleGeneratePlan ==
    /\ view = "upload"
    /\ nRequests < MaxRequests
    /\ ValidFiles(files) # {}
    /\ mode # "null"
    /\ view' = "loading"
    /\ error' = "null"
    /\ planCall' = [pending |-> TRUE, files |-> files, mode |-> mode]
    /\ nRequests' = nRequests + 1
    /\ UNCHANGED <<mode, files, analysis, currentTopic, quizQuestions, quizSummary,
                   isTutorActive, highlightedTopicName, quizPageVars,
                   quizCall, reflectionCall, notesTasks, mnemonicTasks,
                   planGen, notesOutcome, sessionRestarted>>

\* The topics apiGenerateStudyPlan returns (api.ts 665-740): n of them.
PlanTopics(n, g) == [i \in 1..n |-> NewTopic(i, g)]

\* index.tsx 1302-1316: the plan arrives; one notes task is launched per topic.
PlanResolves(n) ==
    /\ planCall.pending
    /\ analysis' = [set |-> TRUE, study_these |-> PlanTopics(n, planGen + 1)]
    /\ view' = "results"
    /\ notesTasks' = notesTasks \cup {NewTopic(i, planGen + 1) : i \in 1..n}
    /\ planCall' = NoCall
    /\ planGen' = planGen + 1
    /\ notesOutcome' = [name \in TopicNames |-> "none"]
    /\ UNCHANGED <<mode, files, error, currentTopic, quizQuestions, quizSummary,
                   isTutorActive, highlightedTopicName, quizPageVars,
                   quizCall, reflectionCall, mnemonicTasks,
                   nRequests, sessionRestarted>>

\* index.tsx 1318-1322 with the files cleared as well.
PlanFailedClearsFiles(f) == NoFiles

\* index.tsx 1318-1322: the catch block leaves files alone.
PlanFailedFiles(f) == f

\* index.tsx 1318-1322
PlanRejects ==
    /\ planCall.pending
    /\ error' = ErrPlan
    /\ view' = "upload"
    /\ files' = PlanFailedFiles(files)
    /\ planCall' = NoCall
    /\ UNCHANGED <<mode, analysis, currentTopic, quizQuestions, quizSummary,
                   isTutorActive, highlightedTopicName, quizPageVars,
                   quizCall, reflectionCall, notesTasks, mnemonicTasks, appAux>>

\* index.tsx 1311, 1314: { ...topic, notes }
NotesResult(topic, ok) ==
    [topic EXCEPT !.notes = IF ok THEN "ready" ELSE "failed"]

\* index.tsx 1309-1315: one notes task completes, with notes or by throwing.
NotesTaskCompletes(topic, ok) ==
    /\ topic \in notesTasks
    /\ UpdateTopicInList(NotesResult(topic, ok))
    /\ notesTasks' = notesTasks \ {topic}
    /\ notesOutcome' =
          IF topic.gen = planGen
          THEN [notesOutcome EXCEPT ![topic.topic] = IF ok THEN "ok" ELSE "fail"]
          ELSE notesOutcome
    /\ UNCHANGED <<view, mode, files, error, quizQuestions, quizSummary,
                   highlightedTopicName, quizPageVars,
                   planCall, quizCall, reflectionCall, mnemonicTasks,
                   planGen, nRequests>>

\* What response.text may be besides notes (api.ts 811-815): "empty" is ''
\* or undefined, which is falsy; "blank" is white space only.
BlankTexts == {"empty", "blank"}

\* index.tsx 1309-1311 with apiGenerateStudyNotes of api.ts, which returns
\* response.text as it is: the call resolves with a text without content
\* and the task merges it as the topic's notes.
NotesTaskReturnsBlank(topic, text) ==
    /\ topic \in notesTasks
    /\ UpdateTopicInList([topic EXCEPT !.notes = text])
    /\ notesTasks' = notesTasks \ {topic}
    /\ notesOutcome' =
          IF topic.gen = planGen
          THEN [notesOutcome EXCEPT ![topic.topic] = text]
          ELSE notesOutcome
    /\ UNCHANGED <<view, mode, files, error, quizQuestions, quizSummary,
                   highlightedTopicName, quizPageVars,
                   planCall, quizCall, reflectionCall, mnemonicTasks,
                   planGen, nRequests>>

\* The study button disabled only while the notes are missing.
StudyDisabledWhilePending(notes) == notes = "pending" \/ notes = "empty"

\* index.tsx 553: disabled={!topic.notes || topic.notes.startsWith('Error:')}
StudyDisabled(notes) == notes \in {"pending", "empty", "failed"}

\* index.tsx 1325-1328, behind the study button of the topic's row.
HandleStudyTopic(topic) ==
    /\ view = "results"
    /\ ~StudyDisabled(topic.notes)
    /\ currentTopic' = topic
    /\ view' = "study"
    /\ UNCHANGED <<mode, files, error, analysis, quizQuestions, quizSummary,
                   isTutorActive, highlightedTopicName, quizPageVars, callVars,
                   planGen, notesOutcome, nRequests>>
    /\ OverlayCommit(FALSE)

\* index.tsx 1330-1333: up to the await.
HandleStartQuiz(topic) ==
    /\ view = "results"
    /\ nRequests < MaxRequests
    /\ currentTopic' = topic
    /\ view' = "loading"
    /\ quizCall' = topic
    /\ nRequests' = nRequests + 1
    /\ UNCHANGED <<mode, files, error, analysis, quizQuestions, quizSummary,
                   isTutorActive, highlightedTopicName, quizPageVars,
                   planCall, reflectionCall, notesTasks, mnemonicTasks,
                   planGen, notesOutcome>>
    /\ OverlayCommit(FALSE)

\* handleStartQuiz without the test of line 1336.
QuizAcceptedUnchecked(n) == TRUE

\* index.tsx 1336-1338: no questions is a failure.
QuizAccepted(n) == n # 0

\* The catch block without its setView.
QuizFailedStays ==
    /\ error' = ErrQuiz
    /\ UNCHANGED <<view, quizQuestions, quizPageVars>>

\* index.tsx 1341-1345
QuizFailed ==
    /\ error' = ErrQuiz
    /\ view' = "results"
    /\ UNCHANGED <<quizQuestions, quizPageVars>>

\* index.tsx 1335-1345: the questions arrive, n of them.
QuizResolves(n) ==
    /\ quizCall # NoTopic
    /\ quizCall' = NoTopic
    /\ IF QuizAccepted(n)
       THEN /\ quizQuestions' = n
            /\ view' = "quiz"
            /\ QuizPageMount
            /\ UNCHANGED error
       ELSE QuizFailed
    /\ UNCHANGED <<mode, files, analysis, currentTopic, quizSummary,
                   isTutorActive, highlightedTopicName,
                   planCall, reflectionCall, notesTasks, mnemonicTasks, appAux>>

\* index.tsx 1341-1345: apiGeneratePracticeQuiz throws.
QuizRejects ==
    /\ quizCall # NoTopic
    /\ quizCall' = NoTopic
    /\ QuizFailed
    /\ UNCHANGED <<mode, files, analysis, currentTopic, quizSummary,
                   isTutorActive, highlightedTopicName,
                   planCall, reflectionCall, notesTasks, mnemonicTasks, appAux>>

\* A faulty handleAnswerSelect: an answer can be given again.
HandleAnswerSelectAgain(correct) ==
    /\ view = "quiz"
    /\ selectedAnswer' = TRUE
    /\ score' = IF correct THEN score + 1 ELSE score
    /\ incorrectQuestions' = IF correct THEN incorrectQuestions
                             ELSE Append(incorrectQuestions, currentIndex)
    /\ UNCHANGED <<stateVars, currentIndex, callVars, appAux>>

\* index.tsx 845-854: the options are disabled once one is selected.
HandleAnswerSelect(correct) ==
    /\ view = "quiz"
    /\ ~selectedAnswer
    /\ selectedAnswer' = TRUE
    /\ score' = IF correct THEN score + 1 ELSE score
    /\ incorrectQuestions' = IF correct THEN incorrectQuestions
                             ELSE Append(incorrectQuestions, currentIndex)
    /\ UNCHANGED <<stateVars, currentIndex, callVars, appAux>>

\* The reflection of the catch block (index.tsx 1365).
FallbackReflection == "Great effort on the quiz!"

\* index.tsx 1348-1355: up to the await.  QuizPage unmounts with the view.
HandleFinishQuiz(s, total) ==
    /\ QuizPageMount
    /\ IF currentTopic = NoTopic
       THEN /\ view' = "results"
            /\ UNCHANGED reflectionCall
       ELSE /\ view' = "loading"
            /\ reflectionCall' = [pending |-> TRUE, score |-> s, total |-> total]
    /\ UNCHANGED <<mode, files, error, analysis, currentTopic, quizQuestions,
                   quizSummary, isTutorActive, highlightedTopicName,
                   planCall, quizCall, notesTasks, mnemonicTasks, appAux>>

\* index.tsx 856-863: the button shows once an answer is selected.
HandleNext ==
    /\ view = "quiz"
    /\ selectedAnswer
    /\ IF currentIndex < quizQuestions - 1
       THEN /\ currentIndex' = currentIndex + 1
            /\ selectedAnswer' = FALSE
            /\ UNCHANGED <<stateVars, score, incorrectQuestions, callVars, appAux>>
       ELSE HandleFinishQuiz(score, quizQuestions)

\* The summary without the finally block's setView.
SummaryViewStays(v) == v

\* index.tsx 1367-1369
SummaryView(v) == "quiz-summary"

\* index.tsx 1357-1369: the reflection arrives (ok) or the call throws and
\* the catch block supplies the fallback text.
ReflectionSettles(ok) ==
    /\ reflectionCall.pending
    /\ quizSummary' = [score |-> reflectionCall.score,
                       total |-> reflectionCall.total,
                       reflection |-> IF ok THEN "generated" ELSE FallbackReflection]
    /\ view' = SummaryView(view)
    /\ reflectionCall' = NoReflection
    /\ UNCHANGED <<mode, files, error, analysis, currentTopic, quizQuestions,
                   isTutorActive, highlightedTopicName, quizPageVars,
                   planCall, quizCall, notesTasks, mnemonicTasks, appAux>>

\* index.tsx 1372-1378
HandleRetryQuiz ==
    /\ view = "quiz-summary"
    /\ IF currentTopic # NoTopic /\ quizQuestions # -1
       THEN /\ view' = "quiz"
            /\ QuizPageMount
            /\ UNCHANGED <<mode, files, error, analysis, currentTopic, quizQuestions,
                           quizSummary, isTutorActive, highlightedTopicName,
                           callVars, appAux>>
       ELSE HandleBackToResults

\* index.tsx 1380-1383: StudyPage passes its own topic, the current one.
HandleStartTutor(topic) ==
    /\ view = "study"
    /\ currentTopic' = topic
    /\ isTutorActive' = TRUE
    /\ UNCHANGED <<view, mode, files, error, analysis, quizQuestions, quizSummary,
                   highlightedTopicName, quizPageVars, callVars,
                   planGen, notesOutcome, nRequests>>
    /\ OverlayCommit(FALSE)

\* index.tsx 1385-1387: the overlay's end-session control.
HandleEndTutor ==
    /\ OverlayMounted(isTutorActive, currentTopic)
    /\ isTutorActive' = FALSE
    /\ UNCHANGED <<view, mode, files, error, analysis, currentTopic, quizQuestions,
                   quizSummary, highlightedTopicName, quizPageVars, callVars,
                   planGen, notesOutcome, nRequests>>
    /\ OverlayCommit(FALSE)

\* index.tsx 595-606: MnemonicStudio.handleGenerate up to its await, on the
\* study page.  saves: the text asked about is the page's topic (613).
MnemonicGenerate(saves) ==
    /\ view = "study"
    /\ nRequests < MaxRequests
    /\ mnemonicTasks' = mnemonicTasks \cup {[topic |-> currentTopic, saves |-> saves]}
    /\ nRequests' = nRequests + 1
    /\ UNCHANGED <<stateVars, quizPageVars, planCall, quizCall, reflectionCall,
                   notesTasks, planGen, notesOutcome, sessionRestarted>>

\* index.tsx 606-616: the mnemonic arrives; onUpdateTopic is updateTopicInList.
MnemonicResolves(task) ==
    /\ task \in mnemonicTasks
    /\ mnemonicTasks' = mnemonicTasks \ {task}
    /\ IF task.saves
       THEN UpdateTopicInList([task.topic EXCEPT !.mnemonic = TRUE])
       ELSE UNCHANGED <<analysis, currentTopic, isTutorActive, sessionRestarted>>
    /\ UNCHANGED <<view, mode, files, error, quizQuestions, quizSummary,
                   highlightedTopicName, quizPageVars,
                   planCall, quizCall, reflectionCall, notesTasks,
                   planGen, notesOutcome, nRequests>>

\* index.tsx 617-620: apiGenerateMnemonic throws.
MnemonicRejects(task) ==
    /\ task \in mnemonicTasks
    /\ mnemonicTasks' = mnemonicTasks \ {task}
    /\ UNCHANGED <<stateVars, quizPageVars, planCall, quizCall, reflectionCall,
                   notesTasks, appAux>>

\* index.tsx 1203-1212: App as constructed.
InitApp ==
    /\ view = "home"
    /\ mode = "null"
    /\ files = NoFiles
    /\ error = "null"
    /\ analysis = NoAnalysis
    /\ currentTopic = NoTopic
    /\ quizQuestions = -1
    /\ quizSummary = NoSummary
    /\ isTutorActive = FALSE
    /\ highlightedTopicName = 0
    /\ currentIndex = 0
    /\ selectedAnswer = FALSE
    /\ score = 0
    /\ incorrectQuestions = <<>>
    /\ planCall = NoCall
    /\ quizCall = NoTopic
    /\ reflectionCall = NoReflection
    /\ notesTasks = {}
    /\ mnemonicTasks = {}
    /\ planGen = 0
    /\ notesOutcome = [name \in TopicNames |-> "none"]
    /\ nRequests = 0
    /\ sessionRestarted = FALSE
    /\ userAnswers = <<>>
    /\ blockCall = NoBlock
    /\ lastAdd = NoAdd
    /\ filesSeen = NoFiles
    /\ heard = <<>>
    /\ retryPc = "idle"
    /\ retryI = 0
    /\ retryLog = <<>>

\* The App with the tutor overlay open: one topic planned, its notes
\* generated, its study page shown and the live tutor started.
InitAppTutoring ==
    /\ view = "study"
    /\ mode \in Modes
    /\ files = [i \in 1..NumSlots |-> IF i = 1 THEN PdfFile ELSE NoFile]
    /\ error = "null"
    /\ analysis = [set |-> TRUE, study_these |-> <<NotesResult(NewTopic(1, 1), TRUE)>>]
    /\ currentTopic = NotesResult(NewTopic(1, 1), TRUE)
    /\ quizQuestions = -1
    /\ quizSummary = NoSummary
    /\ isTutorActive = TRUE
    /\ highlightedTopicName = 0
    /\ currentIndex = 0
    /\ selectedAnswer = FALSE
    /\ score = 0
    /\ incorrectQuestions = <<>>
    /\ planCall = NoCall
    /\ quizCall = NoTopic
    /\ reflectionCall = NoReflection
    /\ notesTasks = {}
    /\ mnemonicTasks = {}
    /\ planGen = 1
    /\ notesOutcome = [name \in TopicNames |-> IF name = 1 THEN "ok" ELSE "none"]
    /\ nRequests = 0
    /\ sessionRestarted = FALSE
    /\ userAnswers = <<>>
    /\ blockCall = NoBlock
    /\ lastAdd = NoAdd
    /\ filesSeen = NoFiles
    /\ heard = <<>>
    /\ retryPc = "idle"
    /\ retryI = 0
    /\ retryLog = <<>>

\* No LiveTutorView is mounted: no run of the session effect, no resource.
InitNoSession ==
    /\ mounted = FALSE
    /\ cur = 0
    /\ status = "connecting"
    /\ nCaptured = 0
    /\ everDeferred = {}
    /\ pc = [g \in Runs |-> "idle"]
    /\ isCancelled = [g \in Runs |-> FALSE]
    /\ stream = [g \in Runs |-> "none"]
    /\ inputCtx = [g \in Runs |-> "none"]
    /\ outputCtx = [g \in Runs |-> "none"]
    /\ nodes = [g \in Runs |-> "none"]
    /\ socket = [g \in Runs |-> "none"]
    /\ socketErrored = [g \in Runs |-> FALSE]
    /\ sessionPromise = [g \in Runs |-> "none"]
    /\ closeCalls = [g \in Runs |-> 0]
    /\ closeQueued = [g \in Runs |-> 0]
    /\ deferred = [g \in Runs |-> <<>>]
    /\ sent = [g \in Runs |-> <<>>]
    /\ sessionPromiseRef = 0
    /\ mediaStreamRef = 0
    /\ inputAudioContextRef = 0
    /\ outputAudioContextRef = 0
    /\ audioNodesRef = 0

\* The topics of the list on the results page.
ListedTopics ==
    {analysis.study_these[i] : i \in DOMAIN analysis.study_these}

live == <<transcriptVars, audioVars, sessionVars>>

\* What the handlers of index.tsx leave alone: the live session, the
\* adaptive continuation and the helpers of api.ts.
outside == <<live, adaptiveVars, apiVars, uploadAux, retryVars, heard>>

SelectsMode == (\E m \in Modes : HandleSelectMode(m)) /\ UNCHANGED outside
BacksToHome == HandleBackToHome /\ UNCHANGED outside
AddsFile ==
    (\E file \in {PdfFile, VideoFile}, i \in 1..NumSlots : HandleAddFile(file, i))
    /\ UNCHANGED outside
RemovesFile == (\E i \in 1..NumSlots : HandleRemoveFile(i)) /\ UNCHANGED outside
GeneratesPlan == HandleGeneratePlan /\ UNCHANGED outside
PlanArrives == (\E n \in 0..MaxTopics : PlanResolves(n)) /\ UNCHANGED outside
ShortPlanArrives == (\E n \in 0..MaxListed : PlanResolves(n)) /\ UNCHANGED outside
PlanFails == PlanRejects /\ UNCHANGED outside
NotesTaskEnds ==
    (\E t \in notesTasks, ok \in BOOLEAN : NotesTaskCompletes(t, ok)) /\ UNCHANGED outside
NotesTaskEndsBlank ==
    (\E t \in notesTasks, text \in BlankTexts : NotesTaskReturnsBlank(t, text))
    /\ UNCHANGED outside
Resets == HandleReset /\ UNCHANGED outside
GoesBack == OnBack /\ UNCHANGED outside
HighlightTimesOut == HighlightExpires /\ UNCHANGED outside
StudiesTopic == (\E t \in ListedTopics : HandleStudyTopic(t)) /\ UNCHANGED outside
StartsQuiz == (\E t \in ListedTopics : HandleStartQuiz(t)) /\ UNCHANGED outside
QuizArrives == (\E n \in 0..MaxQuestions : QuizResolves(n)) /\ UNCHANGED outside
QuizFails == QuizRejects /\ UNCHANGED outside
SelectsAnswer == (\E c \in BOOLEAN : HandleAnswerSelect(c)) /\ UNCHANGED outside
NextQuestion == HandleNext /\ UNCHANGED outside
ReflectionArrives == ReflectionSettles(TRUE) /\ UNCHANGED outside
ReflectionFails == ReflectionSettles(FALSE) /\ UNCHANGED outside
RetriesQuiz == HandleRetryQuiz /\ UNCHANGED outside
StartsTutor == HandleStartTutor(currentTopic) /\ UNCHANGED outside
EndsTutor == HandleEndTutor /\ UNCHANGED outside
AsksMnemonic == (\E saves \in BOOLEAN : MnemonicGenerate(saves)) /\ UNCHANGED outside
MnemonicArrives == (\E task \in mnemonicTasks : MnemonicResolves(task)) /\ UNCHANGED outside
MnemonicFails == (\E task \in mnemonicTasks : MnemonicRejects(task)) /\ UNCHANGED outside

----------------------------------------------------------------------------
(* api.ts 101-155: the audio helper functions.  A sample is the fraction   *)
(* sample / MaxStep; every operation on it is carried out on integers.     *)

\* api.ts 118, 151: the fixed int16 scale.
Scale == 32768

\* Truncation toward zero of num / den, den > 0.
Trunc(num, den) == IF num >= 0 THEN num \div den ELSE -((-num) \div den)

\* Storing into an Int16Array element: the integer modulo 2^16, read as a
\* two's complement number.
ToInt16(x) ==
    LET m == x % 65536
    IN  IF m >= 32768 THEN m - 65536 ELSE m

\* api.ts 118: int16[i] = data[i] * 32768.
Int16Store(num, den) == ToInt16(Trunc(num * Scale, den))

\* api.ts 121: new Uint8Array(int16.buffer), little-endian.
Uint8View(v) ==
    LET u == v % 65536
    IN  <<u % 256, u \div 256>>

\* api.ts 104-111: encode, on the two bytes of one sample: three base64
\* digits (and one padding character).
Base64Encode(bytes) ==
    << bytes[1] \div 4,
       (bytes[1] % 4) * 16 + bytes[2] \div 16,
       (bytes[2] % 16) * 4 >>

\* api.ts 127-135: decode.
Base64Decode(digits) ==
    << digits[1] * 4 + digits[2] \div 16,
       (digits[2] % 16) * 16 + digits[3] \div 4 >>

\* api.ts 114-124: createBlob of a one-sample array.
CreateBlob(num, den) == Base64Encode(Uint8View(Int16Store(num, den)))

\* api.ts 144, 151: new Int16Array(data.buffer)[i]; the element is then
\* divided by 32768.0.
Int16View(bytes) == ToInt16(bytes[1] + 256 * bytes[2])

\* What a helper of api.ts leaves alone: the components and their state.
ProgramIdle == <<transcriptVars, audioVars, sessionVars, stateVars, quizPageVars,
                 callVars, appAux, adaptiveVars, uploadAux, retryVars, heard>>

\* The microphone delivers a sample and createBlob encodes it.
EncodeSample ==
    /\ blob = <<>>
    /\ blob' = CreateBlob(sample, MaxStep)
    /\ UNCHANGED <<sample, channelData, ProgramIdle>>

\* api.ts 138-155: decodeAudioData(decode(data), ...), one channel.
DecodeSample ==
    /\ blob # <<>>
    /\ channelData = <<>>
    /\ channelData' = <<Int16View(Base64Decode(blob))>>
    /\ UNCHANGED <<sample, blob, ProgramIdle>>

\* No helper of api.ts is in use.
InitApiIdle ==
    /\ sample = 0
    /\ blob = <<>>
    /\ channelData = <<>>

----------------------------------------------------------------------------
(* apiGenerateStudyNotes, the server path (index.tsx 2956-2984).  A text   *)
(* is [len, pad]: the length of its trimmed form and of the white space    *)
(* around it; a missing text has both 0.                                   *)

\* index.tsx 2958
MAX_RETRIES == 3

\* What a generateContent call may answer: no text, blank text, and texts
\* of 20 and of 21 characters, bare or padded with white space.
ResponseTexts == [len : {0, 20, 21}, pad : {0, 30}]

\* index.tsx 2967: text && text.trim().length > 20.
NonTrivial(text) == text.len + text.pad > 0 /\ text.len > 20

\* What the rest of the program does not see of the retry loop.
RetryIdle == <<transcriptVars, audioVars, sessionVars, stateVars, quizPageVars,
               callVars, appAux, adaptiveVars, apiVars, uploadAux, heard>>

\* index.tsx 2956-2961: the loop is entered and the first call is made.
NotesRequested ==
    /\ retryPc = "idle"
    /\ retryPc' = "await"
    /\ retryI' = 0
    /\ retryLog' = <<>>
    /\ UNCHANGED RetryIdle

\* index.tsx 2966-2970: the call resolves.  A non-trivial text is returned;
\* otherwise the loop goes on to its next iteration at once, and past the
\* last one to the throw of line 2983.
NotesCallResolves ==
    /\ retryPc = "await"
    /\ \E text \in ResponseTexts :
          IF NonTrivial(text)
          THEN /\ retryPc' = "returned"
               /\ retryLog' = Append(retryLog,
                                      [outcome |-> "text", text |-> text, wait |-> 0])
               /\ UNCHANGED retryI
          ELSE /\ retryLog' = Append(retryLog,
                                      [outcome |-> "trivial", text |-> text, wait |-> 0])
               /\ retryI' = retryI + 1
               /\ retryPc' = IF retryI + 1 < MAX_RETRIES THEN "await" ELSE "thrown"
    /\ UNCHANGED RetryIdle

\* index.tsx 2971-2979: the call throws.  The last attempt rethrows; an
\* earlier one sets the timer of 500 * (i + 1) ms.
NotesCallRejects ==
    /\ retryPc = "await"
    /\ retryLog' = Append(retryLog,
                           [outcome |-> "error", text |-> [len |-> 0, pad |-> 0],
                            wait |-> 0])
    /\ retryPc' = IF retryI = MAX_RETRIES - 1 THEN "thrown" ELSE "sleep"
    /\ UNCHANGED <<retryI, RetryIdle>>

\* index.tsx 2978, 2959: the timer fires after 500 * (i + 1) ms and the next
\* iteration makes its call.
NotesTimerFires ==
    /\ retryPc = "sleep"
    /\ retryLog' = [retryLog EXCEPT ![Len(retryLog)].wait = 500 * (retryI + 1)]
    /\ retryI' = retryI + 1
    /\ retryPc' = "await"
    /\ UNCHANGED RetryIdle

\* The caller's task is over and another topic's notes may be asked for.
NotesCallOver ==
    /\ retryPc \in {"returned", "thrown"}
    /\ retryPc' = "idle"
    /\ UNCHANGED <<retryI, retryLog, RetryIdle>>

----------------------------------------------------------------------------
(* Specifications.                                                         *)

\* A connected session, before its first inbound message.
Init ==
    /\ InitSessionConnected
    /\ transcript = StartupMessages
    /\ InitAccumulators
    /\ InitAudio
    /\ InitAppTutoring
    /\ InitApiIdle

NextTranscript == OnMessageTranscript \/ RenderTranscript

SpecTranscript == Init /\ [][NextTranscript]_vars

\* The transcription with the accumulator every queued updater was called on.
NextDeferred == OnMessageHeard \/ RenderHeard

SpecDeferred == Init /\ [][NextDeferred]_vars

\* index.tsx 1101-1106: onmessage.  The message's transcription is processed,
\* then its audio, if it has any, is handed to playAudio; the previous
\* message's playAudio has run to its end by then.  No buffer plays to its
\* end here, so one duration stands for all.
OnMessage ==
    /\ NoCallSuspended(decoding)
    /\ nEvents < MaxHeard
    /\ \E i \in InputChunks, o \in OutputChunks, tc \in BOOLEAN, eager \in BOOLEAN,
          audio \in BOOLEAN :
          /\ ProcessTranscription(i, o, tc, eager)
          /\ IF audio THEN PlayAudioBegin(1) ELSE UNCHANGED audioVars
    /\ UNCHANGED <<sessionVars, appVars>>

\* Messages with their audio, up to the end of the first buffer: every
\* buffer scheduled is still queued.
NextTurns == OnMessage \/ RenderTranscript \/ AudioScheduled

SpecTurns == Init /\ [][NextTurns]_vars

NextAudio ==
    OnAudioChunk \/ OnBadAudioChunk \/ AudioScheduled \/ AudioEnded \/ ClockTick

SpecAudio == Init /\ [][NextAudio]_vars

\* The session effect starts with its first status message on the transcript.
InitLive ==
    /\ InitSession
    /\ transcript = AddMessage(<<>>, "status", MsgRequesting)
    /\ InitAccumulators
    /\ InitAudio
    /\ InitAppTutoring
    /\ InitApiIdle

\* What one run of the effect and its transport do, and the unmount.
SessionStep ==
    \/ GetUserMediaResolves
    \/ GetUserMediaRejects
    \/ TransportOpens
    \/ SessionResolves
    \/ ConnectRejects
    \/ TransportErrors
    \/ TransportCloses
    \/ Unmounts

\* The life cycle of the session over the runs of the effect.
Next == SessionStep \/ TopicChanges

Spec == InitLive /\ [][Next]_vars

\* One run of the effect with the microphone frames it captures.
NextSend == SessionStep \/ FrameCaptured

SpecSend == InitLive /\ [][NextSend]_vars

\* The App from page load: nothing selected, no overlay.
InitHome ==
    /\ InitApp
    /\ InitNoSession
    /\ transcript = <<>>
    /\ InitAccumulators
    /\ InitAudio
    /\ InitApiIdle

\* Page load to the first plan and its notes tasks.
NextNotes ==
    \/ SelectsMode
    \/ BacksToHome
    \/ AddsFile
    \/ RemovesFile
    \/ GeneratesPlan
    \/ PlanArrives
    \/ PlanFails
    \/ NotesTaskEnds

SpecNotes == InitHome /\ [][NextNotes]_vars

\* The whole App, its plans at most MaxListed topics long.
NextApp ==
    \/ SelectsMode
    \/ BacksToHome
    \/ AddsFile
    \/ RemovesFile
    \/ GeneratesPlan
    \/ ShortPlanArrives
    \/ PlanFails
    \/ NotesTaskEnds
    \/ Resets
    \/ GoesBack
    \/ HighlightTimesOut
    \/ StudiesTopic
    \/ StartsQuiz
    \/ QuizArrives
    \/ QuizFails
    \/ SelectsAnswer
    \/ NextQuestion
    \/ ReflectionArrives
    \/ ReflectionFails
    \/ RetriesQuiz
    \/ StartsTutor
    \/ EndsTutor
    \/ AsksMnemonic
    \/ MnemonicArrives
    \/ MnemonicFails

SpecApp == InitHome /\ [][NextApp]_vars

\* A collaborator call that is awaited settles: the plan, quiz or
\* reflection request resolves or rejects.
PlanSettles == ShortPlanArrives \/ PlanFails
QuizSettles == QuizArrives \/ QuizFails
ReflectionEnds == ReflectionArrives \/ ReflectionFails

\* The navigation between the pages, through every handler that sets the
\* view or awaits a collaborator.
NextViews ==
    \/ SelectsMode
    \/ BacksToHome
    \/ AddsFile
    \/ RemovesFile
    \/ GeneratesPlan
    \/ ShortPlanArrives
    \/ PlanFails
    \/ Resets
    \/ GoesBack
    \/ HighlightTimesOut
    \/ StartsQuiz
    \/ QuizArrives
    \/ QuizFails
    \/ SelectsAnswer
    \/ NextQuestion
    \/ ReflectionArrives
    \/ ReflectionFails
    \/ RetriesQuiz

\* The navigation under the assumption that every awaited call settles.
SpecViews ==
    /\ InitHome
    /\ [][NextViews]_vars
    /\ WF_vars(PlanSettles)
    /\ WF_vars(QuizSettles)
    /\ WF_vars(ReflectionEnds)

----------------------------------------------------------------------------
(* The adaptive quiz continuation (BackgroundTaskCoordinator).  The quiz   *)
(* page that requests the second block is not among the sources; it is     *)
(* modelled from the specification's contract, on top of handleFinishQuiz  *)
(* and of the quiz generator of api.ts 390-447.                            *)

\* The size of the first block of questions.
FirstBlock == 4

\* The difficulty tiers of a follow-up block.
Tiers == {"easy", "hard"}

\* The score of a block: the number of its answers that are correct.
CountCorrect(answers) == Cardinality({i \in DOMAIN answers : answers[i]})

\* The two-level threshold: a high score asks for the harder tier.
ChooseTier(blockScore, threshold) ==
    IF blockScore >= threshold THEN "hard" ELSE "easy"

\* An answer is selected; the session records it for its question.
AdaptiveAnswerSelect(correct) ==
    /\ HandleAnswerSelect(correct)
    /\ userAnswers' = Append(userAnswers, correct)
    /\ UNCHANGED blockCall

\* One more block is requested at the tier of the first block's score,
\* excluding the questions seen so far.
RequestBlock(threshold) ==
    /\ blockCall' = [state |-> "pending",
                     difficulty |-> ChooseTier(CountCorrect(userAnswers), threshold),
                     exclude |-> quizQuestions]
    /\ UNCHANGED <<stateVars, quizPageVars, callVars, appAux, userAnswers>>

\* Next: after the last answer of the first block the second block is
\* requested, once; otherwise as handleNext of index.tsx 856-863.
AdaptiveNext(threshold) ==
    /\ view = "quiz"
    /\ selectedAnswer
    /\ blockCall.state # "pending"
    /\ IF currentIndex = FirstBlock - 1 /\ blockCall.state = "idle"
       THEN RequestBlock(threshold)
       ELSE HandleNext /\ UNCHANGED adaptiveVars

\* api.ts 441-446: an empty list of questions is thrown as an error.
BlockAccepted(n) == n > 0

\* The new block is appended to the live question list and the quiz goes on
\* with its first question.
AppendBlock(n) ==
    /\ quizQuestions' = quizQuestions + n
    /\ currentIndex' = currentIndex + 1
    /\ selectedAnswer' = FALSE
    /\ UNCHANGED <<view, mode, files, error, analysis, currentTopic, quizSummary,
                   isTutorActive, highlightedTopicName, score, incorrectQuestions,
                   callVars, appAux>>

\* The failed request without the step to quiz completion.
FailOpenStuck == UNCHANGED <<stateVars, quizPageVars, callVars, appAux>>

\* Fail open: straight to quiz completion with the questions answered so far.
FailOpen == HandleFinishQuiz(score, quizQuestions)

\* The second-block request throws.
BlockRejects ==
    /\ blockCall.state = "pending"
    /\ blockCall' = [blockCall EXCEPT !.state = "failed"]
    /\ FailOpen
    /\ UNCHANGED userAnswers

\* The second-block request returns n questions.
BlockResolves(n) ==
    IF BlockAccepted(n)
    THEN /\ blockCall.state = "pending"
         /\ blockCall' = [blockCall EXCEPT !.state = "appended"]
         /\ AppendBlock(n)
         /\ UNCHANGED userAnswers
    ELSE BlockRejects

\* The App with the plan of one topic, whose notes are there: on the page v
\* with the current topic t and the quiz questions n.
InitOnPlan(v, t, n) ==
    /\ view = v
    /\ mode \in Modes
    /\ files = [i \in 1..NumSlots |-> IF i = 1 THEN PdfFile ELSE NoFile]
    /\ error = "null"
    /\ analysis = [set |-> TRUE, study_these |-> <<NotesResult(NewTopic(1, 1), TRUE)>>]
    /\ currentTopic = t
    /\ quizQuestions = n
    /\ quizSummary = NoSummary
    /\ isTutorActive = FALSE
    /\ highlightedTopicName = 0
    /\ currentIndex = 0
    /\ selectedAnswer = FALSE
    /\ score = 0
    /\ incorrectQuestions = <<>>
    /\ planCall = NoCall
    /\ quizCall = NoTopic
    /\ reflectionCall = NoReflection
    /\ notesTasks = {}
    /\ mnemonicTasks = {}
    /\ planGen = 1
    /\ notesOutcome = [name \in TopicNames |-> IF name = 1 THEN "ok" ELSE "none"]
    /\ nRequests = 0
    /\ sessionRestarted = FALSE
    /\ userAnswers = <<>>
    /\ blockCall = NoBlock
    /\ lastAdd = NoAdd
    /\ filesSeen = NoFiles
    /\ heard = <<>>
    /\ retryPc = "idle"
    /\ retryI = 0
    /\ retryLog = <<>>

\* The App on the quiz page of the topic, with a list of n questions.
InitOnQuiz(n) == InitOnPlan("quiz", NotesResult(NewTopic(1, 1), TRUE), n)

\* The App on the quiz page of a topic, the first block of questions loaded.
InitAdaptive == InitOnQuiz(FirstBlock)

\* The App on the results page of the plan (index.tsx 1302-1304).
InitOnResults == InitOnPlan("results", NoTopic, -1)

AnswersBlock ==
    (\E correct \in BOOLEAN : AdaptiveAnswerSelect(correct)) /\ UNCHANGED <<live, apiVars, uploadAux, retryVars, heard>>

AdvancesBlock ==
    (\E threshold \in 1..FirstBlock : AdaptiveNext(threshold)) /\ UNCHANGED <<live, apiVars, uploadAux, retryVars, heard>>

BlockArrives == (\E n \in 0..MaxBlock : BlockResolves(n)) /\ UNCHANGED <<live, apiVars, uploadAux, retryVars, heard>>
BlockFails == BlockRejects /\ UNCHANGED <<live, apiVars, uploadAux, retryVars, heard>>

\* The second-block request settles.
BlockSettles == BlockArrives \/ BlockFails

NextAdaptive ==
    \/ AnswersBlock
    \/ AdvancesBlock
    \/ BlockArrives
    \/ BlockFails
    \/ ReflectionArrives
    \/ ReflectionFails

\* The quiz page is shown and no live session exists.
InitQuizPage ==
    /\ InitAdaptive
    /\ InitNoSession
    /\ transcript = <<>>
    /\ InitAccumulators
    /\ InitAudio
    /\ InitApiIdle

\* The quiz page of index.tsx 832-909 with a list of up to MaxAsked
\* questions, no live session.
InitQuizList ==
    /\ \E n \in 1..MaxAsked : InitOnQuiz(n)
    /\ InitNoSession
    /\ transcript = <<>>
    /\ InitAccumulators
    /\ InitAudio
    /\ InitApiIdle

NextQuiz ==
    \/ SelectsAnswer
    \/ NextQuestion
    \/ ReflectionArrives
    \/ ReflectionFails
    \/ RetriesQuiz

SpecQuiz == InitQuizList /\ [][NextQuiz]_vars

\* The results page of a plan and the quizzes started from it.
InitQuizStart ==
    /\ InitOnResults
    /\ InitNoSession
    /\ transcript = <<>>
    /\ InitAccumulators
    /\ InitAudio
    /\ InitApiIdle

NextQuizStart ==
    \/ StartsQuiz
    \/ QuizArrives
    \/ QuizFails
    \/ SelectsAnswer
    \/ NextQuestion
    \/ ReflectionArrives
    \/ ReflectionFails
    \/ RetriesQuiz
    \/ GoesBack
    \/ HighlightTimesOut

SpecQuizStart == InitQuizStart /\ [][NextQuizStart]_vars

\* The adaptive quiz, every awaited call settling.
SpecAdaptive ==
    /\ InitQuizPage
    /\ [][NextAdaptive]_vars
    /\ WF_vars(BlockSettles)
    /\ WF_vars(ReflectionEnds)

\* The audio helpers applied to any one sample of the closed interval
\* [-1, 1]: encoded, then decoded.
InitCodec ==
    /\ InitApp
    /\ InitNoSession
    /\ transcript = <<>>
    /\ InitAccumulators
    /\ InitAudio
    /\ sample \in -MaxStep..MaxStep
    /\ blob = <<>>
    /\ channelData = <<>>

NextCodec == EncodeSample \/ DecodeSample

SpecCodec == InitCodec /\ [][NextCodec]_vars

\* The files a user may drop on a slot: allowed and other types, audio and
\* not, at and around the two size limits.
OfferedFiles ==
    [ type : { <<"application", "pdf">>, <<"image", "png">>, <<"audio", "mpeg">>,
               <<"audio", "ogg">>, <<"video", "mp4">>, <<"", "">> },
      size : { 0, MAX_FILE_SIZE_DEFAULT, MAX_FILE_SIZE_DEFAULT + 1,
               MAX_FILE_SIZE_AUDIO, MAX_FILE_SIZE_AUDIO + 1 } ]

\* index.tsx 269-283: a file is dropped on, or selected for, a slot.
OffersFile ==
    /\ \E file \in OfferedFiles, i \in 1..NumSlots :
          /\ HandleAddFile(file, i)
          /\ lastAdd' = [file |-> file, index |-> i, tick |-> ~lastAdd.tick]
    /\ UNCHANGED <<live, adaptiveVars, apiVars, retryVars, filesSeen, heard>>

\* index.tsx 1255-1274 called from the render that saw the files seen: the
\* handler copies the array of its own render, [...files], and sets the copy.
HandleAddFileSeen(seen, file, index) ==
    /\ view = "upload"
    /\ files' = IF PassesValidation(file) THEN [seen EXCEPT ![index] = file] ELSE files
    /\ UNCHANGED <<view, mode, error, analysis, currentTopic, quizQuestions, quizSummary,
                   isTutorActive, highlightedTopicName, quizPageVars, callVars, appAux>>

\* index.tsx 1276-1280 called from that render, which shows the remove
\* button on the slots it saw filled.
HandleRemoveFileSeen(seen, index) ==
    /\ view = "upload"
    /\ seen[index] # NoFile
    /\ files' = [seen EXCEPT ![index] = NoFile]
    /\ UNCHANGED <<view, mode, error, analysis, currentTopic, quizQuestions, quizSummary,
                   isTutorActive, highlightedTopicName, quizPageVars, callVars, appAux>>

\* React renders the App with the files set last: the upload page gets the
\* handlers of this render.
RenderFiles ==
    /\ filesSeen # files
    /\ filesSeen' = files
    /\ UNCHANGED <<stateVars, quizPageVars, callVars, appAux, lastAdd>>

\* A small image.
PngFile == [type |-> <<"image", "png">>, size |-> 1]

AddsFileSeen ==
    /\ \E file \in {PdfFile, PngFile, VideoFile}, i \in 1..NumSlots :
          HandleAddFileSeen(filesSeen, file, i)
    /\ UNCHANGED outside
RemovesFileSeen ==
    (\E i \in 1..NumSlots : HandleRemoveFileSeen(filesSeen, i)) /\ UNCHANGED outside
RendersFiles == RenderFiles /\ UNCHANGED <<live, adaptiveVars, apiVars, retryVars, heard>>

\* The upload page, its handler calls and its renders apart.
NextSlots == SelectsMode \/ AddsFileSeen \/ RemovesFileSeen \/ RendersFiles

SpecSlots == InitHome /\ [][NextSlots]_vars

\* The upload page.
NextUpload == SelectsMode \/ BacksToHome \/ OffersFile \/ RemovesFile

SpecUpload == InitHome /\ [][NextUpload]_vars

\* One notes request after another.
NextRetry ==
    \/ NotesRequested
    \/ NotesCallResolves
    \/ NotesCallRejects
    \/ NotesTimerFires
    \/ NotesCallOver

SpecRetry ==
    /\ InitHome
    /\ [][NextRetry]_vars
    /\ WF_vars(NotesCallResolves \/ NotesCallRejects)
    /\ WF_vars(NotesTimerFires)

\* One plan and what is done with it: its notes tasks, the study page of
\* its topics and their mnemonics.
NextStudy ==
    \/ SelectsMode
    \/ AddsFile
    \/ GeneratesPlan
    \/ PlanArrives
    \/ PlanFails
    \/ NotesTaskEnds
    \/ StudiesTopic
    \/ GoesBack
    \/ HighlightTimesOut
    \/ AsksMnemonic
    \/ MnemonicArrives
    \/ MnemonicFails

SpecStudy == InitHome /\ [][NextStudy]_vars

\* One plan whose notes generator may also answer with a text without
\* content, and the study page of its topics.
NextNotesText ==
    \/ SelectsMode
    \/ AddsFile
    \/ GeneratesPlan
    \/ PlanArrives
    \/ NotesTaskEnds
    \/ NotesTaskEndsBlank
    \/ StudiesTopic
    \/ GoesBack

SpecNotesText == InitHome /\ [][NextNotesText]_vars

----------------------------------------------------------------------------
(* Claims.                                                                 *)

\* C1: in playAudio the computed start times are non-decreasing, each start
\* time is at least the previous buffer's start time plus its duration (no
\* overlap), and each is at least the output clock at the moment the buffer
\* is scheduled (nothing is scheduled into the past).
C1_GaplessSchedule ==
    \A k \in 1..Len(scheduled) :
        /\ scheduled[k].start >= scheduled[k].now
        /\ k > 1 => /\ scheduled[k].start >= scheduled[k-1].start
                    /\ scheduled[k].start >= scheduled[k-1].start + scheduled[k-1].dur

\* Three buffers scheduled: the second arrived early (it starts at the
\* cursor, ahead of the clock) and the third late (it starts at the clock,
\* after a gap).
C1_Witness ==
    /\ Len(scheduled) = 3
    /\ scheduled[2].start > scheduled[2].now
    /\ scheduled[3].start = scheduled[3].now
    /\ scheduled[3].start > scheduled[2].start + scheduled[2].dur

\* C9: a turn that so far consists only of input fragments f1..fn shows, once
\* its transcript updates have run, exactly one user message for the run: the
\* last message, with text f1+...+fn; the run's updaters append at most once.
C9_OneUserMessagePerRun ==
    (pendingUpd = <<>> /\ turnIn # <<>> /\ ~turnHasOut) =>
        /\ Len(transcript) > 0
        /\ Last(transcript) = [role |-> "user", text |-> Flatten(turnIn)]
        /\ runAppends <= 1
        /\ \A i \in 1..(Len(transcript) - 1) : transcript[i].role # "user"
                                               \/ transcript[i+1].role # "user"

\* Two fragments "a", "a" of one turn, applied: one message "aa".
C9_Witness ==
    /\ pendingUpd = <<>>
    /\ turnIn = << <<"a">>, <<"a">> >>
    /\ ~turnHasOut
    /\ transcript = Append(StartupMessages, [role |-> "user", text |-> <<"a", "a">>])

\* C10: after a turn-complete for a turn whose accumulated input is empty or
\* whitespace-only, the transcript (its updates applied) does not end with a
\* user message whose text is empty or whitespace-only.
C10_NoTrailingEmptyUser ==
    (lastEvt = "turnComplete" /\ pendingUpd = <<>> /\ IsBlank(Flatten(closedIn))) =>
        ~(/\ Len(transcript) > 0
          /\ Last(transcript).role = "user"
          /\ IsBlank(Last(transcript).text))

\* A turn of one whitespace fragment was closed after a model message: the
\* whitespace bubble is gone and the model message is last again.
C10_Witness ==
    /\ lastEvt = "turnComplete"
    /\ pendingUpd = <<>>
    /\ closedIn = << <<" ">> >>
    /\ transcript = Append(StartupMessages, [role |-> "model", text |-> <<"x">>])

\* What teardown leaves of run g: nothing held, and a close asked of the
\* transport: called if the session is there, queued on the promise if not.
TornDown(g) ==
    /\ stream[g] # "held"
    /\ inputCtx[g] # "held"
    /\ outputCtx[g] # "held"
    /\ nodes[g] # "held"
    /\ sessionPromise[g] = "resolved" => closeCalls[g] >= 1
    /\ sessionPromise[g] = "pending" => closeQueued[g] >= 1
    /\ socket[g] \in {"connecting", "open"} => sessionPromise[g] = "pending"

\* C2: every resource a run of the session acquired (microphone stream, both
\* audio contexts, capture nodes, transport) is released once its teardown
\* has run, whenever the teardown came: with the microphone request pending,
\* with the transport connecting, after the session connected, or after a
\* startup failure partway.  A transport whose session promise is still
\* pending has its close queued on that promise.
C2_ReleasedAfterTeardown ==
    \A g \in Runs : isCancelled[g] => TornDown(g)

\* Run 1 failed partway (the output context could not be built) and was
\* torn down when the topic was replaced; run 2 connected and was torn down
\* at unmount.
C2_Witness ==
    /\ ~mounted
    /\ isCancelled[1] /\ pc[1] = "caught" /\ stream[1] = "released"
    /\ inputCtx[1] = "released" /\ outputCtx[1] = "none"
    /\ isCancelled[2] /\ nodes[2] = "released" /\ stream[2] = "released"
    /\ inputCtx[2] = "released" /\ outputCtx[2] = "released"
    /\ closeCalls[2] = 1 /\ socket[2] = "closed"

\* The state the transcript and playback specifications start from is a
\* state of the session: the first run, connected.
ConnectedIsReachable ==
    /\ InitSessionConnected
    /\ transcript = StartupMessages

TerminalStatus == {"error", "disconnected"}

\* C3: when the status becomes error or disconnected (transport error,
\* transport close, startup failure), that event tears the session down:
\* after it no run holds a microphone stream, an audio context or capture
\* nodes, and every session obtained has been asked to close.
C3_TeardownOnTerminalStatus ==
    [][ (status' \in TerminalStatus /\ status' # status) =>
            \A g \in Runs :
                /\ stream'[g] # "held"
                /\ inputCtx'[g] # "held"
                /\ outputCtx'[g] # "held"
                /\ nodes'[g] # "held"
                /\ sessionPromise'[g] = "resolved" => closeCalls'[g] >= 1 ]_vars

\* C4: teardown run again, or run after a startup that failed partway,
\* releases nothing a second time: stop, disconnect, close and session.close
\* happen at most once per acquired resource.
C4_NoDoubleRelease ==
    \A g \in Runs :
        /\ stream[g] # "releasedAgain"
        /\ inputCtx[g] # "releasedAgain"
        /\ outputCtx[g] # "releasedAgain"
        /\ nodes[g] # "releasedAgain"
        /\ closeCalls[g] + closeQueued[g] <= 1

\* C5: error and disconnected are terminal: once the status is one of them
\* it never changes again.
C5_TerminalStatusIsFinal ==
    [][(status \in TerminalStatus => status' = status)]_vars

\* C6: a cancelled run acquires nothing more.  A microphone granted after
\* the cancellation is stopped at once and stored in no ref, no audio
\* context and no transport is created; a transport that opens after the
\* cancellation gets no capture nodes and changes neither the status nor
\* the transcript.
C6_NoAcquisitionAfterCancel ==
    [][ \A g \in Runs : isCancelled[g] =>
            /\ stream[g] = "none" => stream'[g] \in {"none", "released"}
            /\ inputCtx[g] = "none" => inputCtx'[g] = "none"
            /\ outputCtx[g] = "none" => outputCtx'[g] = "none"
            /\ socket[g] = "none" => socket'[g] = "none"
            /\ sessionPromise[g] = "none" => sessionPromise'[g] = "none"
            /\ nodes[g] = "none" => nodes'[g] = "none"
            /\ mediaStreamRef' = g => mediaStreamRef = g
            /\ audioNodesRef' = g => audioNodesRef = g
            /\ sessionPromiseRef' = g => sessionPromiseRef = g
            /\ (socket[g] = "connecting" /\ socket'[g] = "open") =>
                   (status' = status /\ transcript' = transcript) ]_vars

\* Run 1 was cancelled while its transport was connecting and the transport
\* then opened; run 2 was cancelled while the microphone request was pending
\* and the microphone was then granted.
C6_Witness ==
    /\ isCancelled[1] /\ socket[1] = "open" /\ nodes[1] = "none"
    /\ isCancelled[2] /\ pc[2] = "returned" /\ stream[2] = "released"
    /\ inputCtx[2] = "none" /\ socket[2] = "none"

\* The microphone request of run g failed: the catch block ran and there
\* never was a stream.
MicFailed(g) == pc[g] = "caught" /\ stream[g] = "none"

\* C7: when the microphone request fails the status becomes error, the
\* user-facing status message is appended to the transcript, the run has
\* acquired nothing (no stream, no audio context, no transport), and it
\* stays so: the request is not made again.
C7_MicFailure ==
    [][ \A g \in Runs :
            /\ (pc[g] = "mic" /\ MicFailed(g)') =>
                   /\ status' = "error"
                   /\ transcript' = Append(transcript,
                                           [role |-> "status", text |-> MsgMicError])
            /\ MicFailed(g)' =>
                   /\ inputCtx'[g] = "none" /\ outputCtx'[g] = "none"
                   /\ socket'[g] = "none" /\ sessionPromise'[g] = "none"
                   /\ nodes'[g] = "none"
            /\ MicFailed(g) => MicFailed(g)' ]_vars

\* The first run's microphone request failed, and the component is still
\* mounted with the error shown.
C7_Witness ==
    /\ MicFailed(1)
    /\ mounted /\ cur = 1
    /\ status = "error"
    /\ Last(transcript) = [role |-> "status", text |-> MsgMicError]

IsIncreasing(s) == \A i \in 1..(Len(s) - 1) : s[i] < s[i+1]

Range(s) == {s[i] : i \in 1..Len(s)}

\* C8: a captured frame is sent only once the session promise has resolved;
\* a frame captured while it is pending waits on it and is sent when it
\* resolves; no frame is lost and frames are sent in the order captured.
C8_SendsWaitForSession ==
    /\ \A g \in Runs :
        /\ sent[g] # <<>> => sessionPromise[g] = "resolved"
        /\ deferred[g] # <<>> => sessionPromise[g] = "pending"
        /\ IsIncreasing(sent[g] \o deferred[g])
    /\ UNION {Range(sent[g] \o deferred[g]) : g \in Runs} = 1..nCaptured

\* Frame 1 was captured between onopen and the resolution of the promise,
\* frame 2 after it: both were sent, in that order.
C8_Witness ==
    /\ sent[1] = <<1, 2>>
    /\ everDeferred = {1}
    /\ sessionPromise[1] = "resolved"

\* The notes a topic shows for the way its notes task ended.
NotesFor(outcome) ==
    CASE outcome = "ok" -> "ready"
      [] outcome = "fail" -> "failed"
      [] OTHER -> "pending"

\* C11: after a successful plan, whatever the order in which the notes tasks
\* complete and whichever of them fail, every topic of the analysis holds
\* the generated notes if its own task succeeded, the error marker if its
\* own task failed, and is still pending if its task has not completed; no
\* other task's completion or failure shows in it.
C11_NotesPerTopic ==
    analysis.set =>
        \A i \in DOMAIN analysis.study_these :
            analysis.study_these[i] =
                [NewTopic(i, planGen) EXCEPT !.notes = NotesFor(notesOutcome[i])]

\* Three topics, all tasks completed: the second failed, the others succeeded.
C11_Witness ==
    /\ analysis.set
    /\ Len(analysis.study_these) = 3
    /\ notesTasks = {}
    /\ notesOutcome[1] = "ok" /\ notesOutcome[2] = "fail" /\ notesOutcome[3] = "ok"
    /\ analysis.study_these[2].notes = "failed"

\* Every piece of App state that handleReset clears, apart from the view.
DataCleared ==
    /\ mode = "null"
    /\ files = NoFiles
    /\ error = "null"
    /\ ~analysis.set
    /\ currentTopic = NoTopic
    /\ quizQuestions = -1
    /\ quizSummary = NoSummary
    /\ ~isTutorActive

\* C12: handleReset (results -> home) leaves view home and mode, files,
\* error, analysis, currentTopic, quizQuestions, quizSummary and
\* isTutorActive cleared; and a notes task that completes while there is no
\* analysis and no current topic changes nothing of the App's state.
C12_ResetClears ==
    [][ /\ (view = "results" /\ view' = "home") => DataCleared'
        /\ (/\ ~analysis.set /\ currentTopic = NoTopic
            /\ notesTasks' # notesTasks /\ planGen' = planGen)
              => UNCHANGED stateVars ]_vars

\* After a reset the state is cleared, and a notes task launched before the
\* reset has completed since.
C12_Witness ==
    /\ view = "home"
    /\ DataCleared
    /\ planGen = 1
    /\ notesTasks = {}
    /\ notesOutcome[1] = "ok"

\* C13: a notes result of a superseded plan is discarded: every topic of
\* the analysis is a topic of the latest plan.
C13_StaleResultsDiscarded ==
    analysis.set =>
        \A i \in DOMAIN analysis.study_these : analysis.study_these[i].gen = planGen

\* A failed plan generation: the step that ends a pending plan call without
\* a new plan.
PlanFailure == planCall.pending /\ ~planCall'.pending /\ planGen' = planGen

\* C15: when plan generation fails, view goes from loading to upload, error
\* is set, files and mode are what they were when handleGeneratePlan was
\* invoked, and analysis is not set.
C15_PlanFailureKeepsFiles ==
    [][ PlanFailure =>
          /\ view = "loading" /\ view' = "upload"
          /\ error' # "null"
          /\ files' = planCall.files /\ ValidFiles(files') # {}
          /\ mode' = planCall.mode /\ mode' # "null"
          /\ ~analysis'.set ]_vars

\* A second plan, asked for after a reset, has failed: the upload page
\* shows the error and still holds the selected file.
C15_Witness ==
    /\ view = "upload"
    /\ error = ErrPlan
    /\ ValidFiles(files) # {}
    /\ planGen = 1
    /\ ~planCall.pending

\* C14: going back to the results from study, quiz or quiz-summary sets
\* view to results, clears currentTopic, the quiz questions and progress and
\* the tutor-overlay flag, and leaves analysis unchanged.
C14_BackClearsScratch ==
    [][ (view \in {"study", "quiz", "quiz-summary"} /\ view' = "results") =>
          /\ currentTopic' = NoTopic
          /\ quizQuestions' = -1
          /\ currentIndex' = 0 /\ ~selectedAnswer' /\ score' = 0
          /\ ~isTutorActive'
          /\ analysis' = analysis ]_vars

\* The step that ends a pending quiz call without entering the quiz.
QuizGenerationFails == quizCall # NoTopic /\ quizCall' = NoTopic /\ view' # "quiz"

\* C16: a quiz generation that returns no questions, like one that throws,
\* sets error and takes view from loading back to results; and view is
\* never quiz with a missing or empty question list.
C16_NoEmptyQuiz ==
    [][ /\ QuizGenerationFails =>
              (view = "loading" /\ view' = "results" /\ error' = ErrQuiz)
        /\ (quizCall # NoTopic /\ quizCall' = NoTopic /\ view' = "quiz") =>
              quizQuestions' >= 1
        /\ view' = "quiz" => quizQuestions' >= 1 ]_vars

\* A quiz was asked for and failed: the results page shows the error.
C16_Witness ==
    /\ view = "results"
    /\ error = ErrQuiz
    /\ quizCall = NoTopic
    /\ currentTopic # NoTopic
    /\ quizQuestions = -1

\* C17: finishing the last question hands the QuizPage's score and the
\* number of questions to handleFinishQuiz; when the reflection call settles,
\* by resolving or by throwing, view becomes quiz-summary and quizSummary
\* holds exactly that score and total, with the generated reflection or the
\* fixed fallback text.
C17_SummaryAfterQuiz ==
    [][ /\ (view = "quiz" /\ view' = "loading") =>
              /\ currentTopic # NoTopic
              /\ currentIndex = quizQuestions - 1
              /\ reflectionCall' = [pending |-> TRUE, score |-> score,
                                    total |-> quizQuestions]
        /\ (reflectionCall.pending /\ ~reflectionCall'.pending) =>
              /\ view = "loading" /\ view' = "quiz-summary"
              /\ quizSummary'.score = reflectionCall.score
              /\ quizSummary'.total = reflectionCall.total
              /\ quizSummary'.reflection \in {"generated", FallbackReflection}
        /\ (reflectionCall.pending /\ reflectionCall'.pending) =>
              (view' = "loading" /\ reflectionCall' = reflectionCall) ]_vars

\* The reflection call threw after a quiz answered correctly: the summary
\* shows the score, the total and the fallback text.
C17_Witness ==
    /\ view = "quiz-summary"
    /\ quizSummary.reflection = FallbackReflection
    /\ quizSummary.score = 1
    /\ quizSummary.total = 1
    /\ ~reflectionCall.pending

\* The fail-open path: the second-block request has thrown.
BlockFailed == blockCall.state = "failed"

\* The score and total of the first block alone.
FirstBlockResult(r) ==
    /\ r.total = FirstBlock
    /\ r.score = CountCorrect(SubSeq(userAnswers, 1, FirstBlock))

\* C18: when the request for the second block throws after the first block
\* of 4 questions has been answered, the quiz reaches quiz-summary, the
\* score and total are those of exactly the first block's questions and
\* answers, and the view does not stay in loading.
C18_AdaptiveFailOpen ==
    /\ [](BlockFailed =>
            /\ Len(userAnswers) = FirstBlock
            /\ quizQuestions = FirstBlock
            /\ view \in {"loading", "quiz-summary"}
            /\ view = "loading" =>
                  (reflectionCall.pending /\ FirstBlockResult(reflectionCall))
            /\ view = "quiz-summary" => FirstBlockResult(quizSummary))
    /\ (BlockFailed ~> (view = "quiz-summary"))

\* The second block failed after two correct answers out of four and the
\* summary is shown.
C18_Witness ==
    /\ BlockFailed
    /\ view = "quiz-summary"
    /\ quizSummary.score = 2
    /\ quizSummary.total = FirstBlock
    /\ CountCorrect(userAnswers) = 2

\* C20: the live session is torn down only with the overlay: while the
\* overlay stays mounted its session effect is never cleaned up and run
\* again.
C20_SessionLivesWithOverlay == ~sessionRestarted

\* C19: if the awaited collaborator call settles, a loading view is
\* followed by an interactive one: results, upload, quiz or quiz-summary.
C19_LoadingEnds ==
    (view = "loading") ~> (view \in {"results", "upload", "quiz", "quiz-summary"})

\* A quiz summary is shown: the view has been loading three times, for the
\* plan, the quiz and the reflection, and has left it each time.
C19_Witness ==
    /\ view = "quiz-summary"
    /\ planGen = 1
    /\ quizSummary # NoSummary
    /\ ~planCall.pending /\ quizCall = NoTopic /\ ~reflectionCall.pending

\* C21: for every sample s of [-1, 1], the value decoded from the 16-bit
\* number createBlob stores for s lies within 1/32768 of s.  With
\* s = sample / MaxStep and the decoded value v / Scale this is
\* |v * MaxStep - sample * Scale| <= MaxStep.
C21_CodecRoundTrip ==
    channelData # <<>> =>
        LET d == channelData[1] * MaxStep - sample * Scale
        IN  d <= MaxStep /\ -d <= MaxStep

\* The names of the plan's topics, in order.
TopicNamesOf(a) == [i \in DOMAIN a.study_these |-> a.study_these[i].topic]

\* C22: once a plan is set, and until a full reset or a fresh plan, every
\* change of analysis keeps the number of topics and the sequence of their
\* names: no topic is removed, added or moved, whichever view is shown and
\* in whatever order the background merges land.
C22_AnalysisKeepsTopics ==
    [][ analysis.set =>
          \/ /\ analysis'.set
             /\ TopicNamesOf(analysis') = TopicNamesOf(analysis)
          \/ planGen' # planGen
          \/ view = "results" /\ view' = "home" /\ analysis' = NoAnalysis ]_vars

\* Merges have landed out of list order, on the study page: the third
\* topic has its notes and a mnemonic while the first is still pending.
C22_Witness ==
    /\ view = "study"
    /\ Len(analysis.study_these) = 3
    /\ analysis.study_these[1].notes = "pending"
    /\ analysis.study_these[3].notes = "ready"
    /\ analysis.study_these[3].mnemonic
    /\ TopicNamesOf(analysis) = <<1, 2, 3>>

\* C23: the view becomes study only from the results page, for a listed
\* topic whose notes are present and are not the error marker; a topic whose
\* notes are pending or failed cannot be opened.
C23_StudyNeedsNotes ==
    [][ (view # "study" /\ view' = "study") =>
          /\ view = "results"
          /\ currentTopic' \in ListedTopics
          /\ currentTopic'.notes = "ready" ]_vars

\* The study page of the second topic is open while the first topic's
\* notes have failed and the third's are pending.
C23_Witness ==
    /\ view = "study"
    /\ currentTopic.topic = 2
    /\ currentTopic.notes = "ready"
    /\ Len(analysis.study_these) = 3
    /\ analysis.study_these[1].notes = "failed"
    /\ analysis.study_these[3].notes = "pending"

\* The upload policy: an allowed MIME type and a size of at most 20 MB for
\* audio/*, 10 MB otherwise.
WithinPolicy(file) ==
    /\ file.type \in ALLOWED_MIME_TYPES
    /\ file.size <= (IF file.type[1] = "audio" THEN 20 ELSE 10) * 1024 * 1024

\* C24: a handleAddFile call puts the file into its slot, and changes no
\* other slot, if and only if the file is within the policy; a file outside
\* the policy leaves every slot as it was.
C24_AddFilePolicy ==
    [][ lastAdd' # lastAdd =>
          IF WithinPolicy(lastAdd'.file)
          THEN /\ files' = [files EXCEPT ![lastAdd'.index] = lastAdd'.file]
               /\ files'[lastAdd'.index] # NoFile
          ELSE files' = files ]_vars

\* A slot holds an audio file of exactly 20 MB, and a PDF one byte above
\* 10 MB, offered for the same slot afterwards, has been turned away.
C24_Witness ==
    /\ lastAdd.file = [type |-> <<"application", "pdf">>,
                       size |-> MAX_FILE_SIZE_DEFAULT + 1]
    /\ lastAdd.index = 2
    /\ files[2] = [type |-> <<"audio", "mpeg">>, size |-> MAX_FILE_SIZE_AUDIO]

\* Attempt k was followed by another attempt.
Retried(k) == k < Len(retryLog) \/ (k = Len(retryLog) /\ retryPc = "await")

\* C25: the server path makes at most 3 calls; it returns the first text
\* whose trimmed form is longer than 20 characters, so every earlier
\* attempt threw or answered less; before the retry that follows the k-th
\* unsuccessful attempt it waits 500 * k ms; it throws only after the third
\* unsuccessful attempt.
C25_NotesRetry ==
    /\ Len(retryLog) <= MAX_RETRIES
    /\ \A k \in 1..Len(retryLog) :
          /\ retryLog[k].outcome = "text" =>
                (k = Len(retryLog) /\ retryPc # "await" /\ retryLog[k].text.len > 20)
          /\ retryLog[k].outcome = "trivial" => retryLog[k].text.len <= 20
          /\ Retried(k) => retryLog[k].wait = 500 * k
    /\ retryPc = "returned" => retryLog[Len(retryLog)].outcome = "text"
    /\ retryPc = "thrown" => Len(retryLog) = MAX_RETRIES

\* C26: once a turn-complete has been processed and the turn's updates have
\* run, the messages the transcript then holds are never modified, overwritten
\* or removed by what a later turn does: a later turn only adds after them.
C26_ClosedTurnsKept ==
    [][\A i \in 1..sealed : /\ i <= Len(transcript')
                            /\ transcript'[i] = transcript[i]]_vars

\* C27: within one turn the transcript gains at most one user message and at
\* most one model message, and once the turn's updates have run their texts
\* are the concatenations of the turn's input and output fragments, whatever
\* the order of the fragments.
C27_OneMessagePerRole ==
    Applied(pendingUpd) =>
        LET own    == (sealed + 1)..Len(transcript)
            users  == {i \in own : transcript[i].role = "user"}
            models == {i \in own : transcript[i].role = "model"}
        IN  /\ Cardinality(users) <= 1
            /\ Cardinality(models) <= 1
            /\ \A i \in users : transcript[i].text = Flatten(turnIn)
            /\ \A i \in models : transcript[i].text = Flatten(turnOut)

\* One update of the transcript: nothing, one message appended, the last
\* message replaced, or the last message removed.
LastOnly(prev, next) ==
    \/ next = prev
    \/ Len(next) = Len(prev) + 1 /\ Front(next) = prev
    \/ Len(prev) > 0 /\ Len(next) = Len(prev) /\ Front(next) = Front(prev)
    \/ Len(prev) > 0 /\ next = Front(prev)

\* Each of the updaters us, run in order from prev, is such an update.
RECURSIVE EachLastOnly(_, _, _, _)
EachLastOnly(us, prev, inRef, outRef) ==
    \/ us = <<>>
    \/ LET nxt == RunUpdater(Head(us), prev, inRef, outRef)
       IN  LastOnly(prev, nxt) /\ EachLastOnly(Tail(us), nxt, inRef, outRef)

\* C28: every transcript update made by processTranscription appends one
\* message, replaces the last message or removes the last message, and leaves
\* every other message as and where it was: the one update a message applies
\* at once, and each of the queued updates a render applies.
C28_LastMessageOnly ==
    [][IF nEvents' = nEvents
       THEN /\ EachLastOnly(pendingUpd, transcript, currentInput, currentOutput)
            /\ Len(pendingUpd) = 1 => LastOnly(transcript, transcript')
       ELSE LastOnly(transcript, transcript')]_vars

\* Two turns, their updates run: "a", "a" and "x" gave a user message that
\* was appended and then replaced and a model message; the blank fragment of
\* the second turn was appended after them and removed at its turn-complete.
C28_Witness ==
    /\ pendingUpd = <<>>
    /\ closedIn = << <<" ">> >>
    /\ transcript = StartupMessages \o
                        << [role |-> "user", text |-> <<"a", "a">>],
                           [role |-> "model", text |-> <<"x">>] >>

\* The text of the latest message of a role, << "none" >> without one.
LatestText(t, role) ==
    LET at == {i \in 1..Len(t) : t[i].role = role}
    IN  IF at = {} THEN << "none" >>
        ELSE t[CHOOSE i \in at : \A j \in at : j <= i].text

\* C29: once a turn-complete has been processed both accumulators are empty,
\* whether or not the message carried a fragment and whether or not buffers
\* are still queued for playback; and in a later turn, once the updates of
\* its first input (output) fragment have run, the latest user (model)
\* message has that fragment alone as its text.
C29_TurnCompleteResets ==
    /\ lastEvt = "turnComplete" => currentInput = <<>> /\ currentOutput = <<>>
    /\ (turnClosed /\ Applied(pendingUpd) /\ Len(turnIn) = 1)
           => LatestText(transcript, "user") = turnIn[1]
    /\ (turnClosed /\ Applied(pendingUpd) /\ Len(turnOut) = 1)
           => LatestText(transcript, "model") = turnOut[1]

\* Three messages, each with audio: "x" spoken, then a turn-complete without
\* a fragment while the buffers were queued, then the fragment "a" of the
\* next turn, which shows alone after the closed turn's model message.
C29_Witness ==
    /\ nEvents = 3
    /\ Len(outputQueue) = 3
    /\ turnClosed
    /\ pendingUpd = <<>>
    /\ closedIn = <<>>
    /\ turnIn = << <<"a">> >>
    /\ turnOut = <<>>
    /\ transcript = StartupMessages \o
                        << [role |-> "model", text |-> <<"x">>],
                           [role |-> "user", text |-> <<"a">>] >>

\* C30: whenever no playAudio call is suspended at its await, isSpeaking is
\* true if the output queue holds a buffer and false if the queue has held
\* buffers and is empty again, whatever the order of the audio chunks, their
\* decoding and the ended callbacks.
C30_SpeakingIffQueued ==
    decoding = <<>> =>
        /\ outputQueue # <<>> => isSpeaking
        /\ (outputQueue = <<>> /\ scheduled # <<>>) => ~isSpeaking

\* C31: inbound messages are applied in arrival order: each accumulator holds
\* the fragments of the open turn in the order their messages arrived, and
\* the buffers are scheduled (get their start times) in the order their
\* chunks arrived, although each is scheduled after its decode.
C31_ArrivalOrder ==
    /\ currentInput = Flatten(turnIn)
    /\ currentOutput = Flatten(turnOut)
    /\ \A k \in 1..(Len(scheduled) - 1) : scheduled[k].chunk < scheduled[k+1].chunk

\* Two messages, each with a fragment and audio: "a" then " " is heard as
\* "a ", and the first chunk's buffer was scheduled first.
C31_Witness ==
    /\ nEvents = 2
    /\ currentInput = << "a", " " >>
    /\ Len(scheduled) = 2
    /\ scheduled[1].chunk = 1
    /\ scheduled[2].chunk = 2
    /\ scheduled[2].start = scheduled[1].start + scheduled[1].dur

\* A step of playAudio that schedules a buffer.
Schedules == Len(scheduled') = Len(scheduled) + 1

\* C32 as stated: after playAudio schedules a buffer of duration d the cursor
\* is the old cursor plus d; the cursor starts at 0 and never decreases.
C32_CursorPlusDuration ==
    /\ nextStartTime = 0
    /\ [][/\ Schedules => nextStartTime' = nextStartTime + Last(scheduled').dur
          /\ nextStartTime' >= nextStartTime]_vars

\* C32, amended: after playAudio schedules a buffer of duration d the cursor
\* is max(clock, old cursor) + d: the old cursor plus d when the cursor was
\* not behind the clock, the clock plus d when it was.  The cursor starts at
\* 0, changes only when a buffer is scheduled, and never decreases.
C32_CursorAfterStart ==
    /\ nextStartTime = 0
    /\ [][/\ Schedules => /\ nextStartTime' = Max(clock, nextStartTime)
                                                + Last(scheduled').dur
                          /\ nextStartTime' >= nextStartTime + Last(scheduled').dur
          /\ ~Schedules => nextStartTime' = nextStartTime
          /\ nextStartTime' >= nextStartTime]_vars

\* The second buffer was scheduled late, after the first had played out and
\* the clock had passed the cursor: the cursor is the clock of that moment
\* plus the buffer's duration, more than the old cursor plus the duration.
C32_Witness ==
    /\ Len(scheduled) = 2
    /\ scheduled[2].now > scheduled[1].start + scheduled[1].dur
    /\ nextStartTime = scheduled[2].now + scheduled[2].dur
    /\ nextStartTime > scheduled[1].start + scheduled[1].dur + scheduled[2].dur

\* C33: a notes task whose generator returns empty or whitespace-only text
\* counts as failed: once the call has completed, the topic carries the
\* error marker; it is neither left looking pending nor shown as ready.
C33_BlankNotesFail ==
    analysis.set =>
        \A i \in DOMAIN analysis.study_these :
            notesOutcome[i] \in BlankTexts => analysis.study_these[i].notes = "failed"

C35_CancelledRunSilent ==
    [][\A g \in Runs :
          ( /\ isCancelled[g]
            /\ g < cur
            /\ \/ MicDenied(g)
               \/ ConnectReject(g)
               \/ TransportError(g)
               \/ TransportClose(g) )
          => UNCHANGED <<status, transcript>>]_vars

\* C36: no captured frame is passed to session.sendRealtimeInput once the
\* status is error or disconnected, or once the cleanup of the run has run.
C36_NoSendAfterEnd ==
    [][\A g \in Runs :
          (status \in {"error", "disconnected"} \/ isCancelled[g])
          => sent'[g] = sent[g]]_vars

\* C36, the teardown alone: no frame is sent once the cleanup has run.
C36_NoSendAfterCleanup ==
    [][\A g \in Runs : isCancelled[g] => sent'[g] = sent[g]]_vars

\* C37: the text a fragment's update writes into the transcript shown is the
\* accumulator as it was when the fragment's message was handled: a render
\* leaves the transcript that the queued updaters give when each one writes
\* the accumulator its own event left, also when a turn-complete has reset
\* the accumulator since.
C37_WritesWhatWasHeard ==
    [][pendingUpd # <<>> /\ pendingUpd' = <<>>
       => transcript' = RunAllHeard(pendingUpd, heard, transcript)]_vars

\* C38: every page is shown with the state it renders: the upload and the
\* results page only with a mode, the study, quiz and quiz-summary page only
\* with a current topic, the quiz page only with a list of at least one
\* question, the quiz-summary page only with a quiz summary.
C38_ViewHasItsState ==
    /\ view \in {"upload", "results"} => mode # "null"
    /\ view \in {"study", "quiz", "quiz-summary"} => currentTopic # NoTopic
    /\ view = "quiz" => quizQuestions > 0
    /\ view = "quiz-summary" => quizSummary # NoSummary

\* C38: the quiz-summary page is shown, after a quiz has been finished and
\* its reflection has settled, with the mode, the topic, the questions and
\* the summary in place.
C38_Witness ==
    /\ view = "quiz-summary"
    /\ mode # "null"
    /\ currentTopic # NoTopic
    /\ quizQuestions > 0
    /\ quizSummary # NoSummary

\* QuizPage's counters agree: every question answered is counted once, as
\* correct or as incorrect, and the current question is one of the list.
QuizCounts ==
    view = "quiz" =>
       /\ score + Len(incorrectQuestions)
             = currentIndex + (IF selectedAnswer THEN 1 ELSE 0)
       /\ currentIndex \in 0..(quizQuestions - 1)

\* C39: on the quiz page the score plus the number of questions recorded as
\* incorrect is the number of questions answered and the current index stays
\* inside the list; the page moves to the next question only after the
\* current one is answered; the quiz is finished only after the last
\* question is answered, with the score and with total = the list's length.
C39_QuizProgress ==
    /\ QuizCounts
    /\ [][/\ QuizCounts'
          /\ (view = "quiz" /\ view' = "quiz" /\ currentIndex' # currentIndex)
                => (selectedAnswer /\ currentIndex' = currentIndex + 1)
          /\ (~reflectionCall.pending /\ reflectionCall'.pending)
                => /\ view = "quiz"
                   /\ selectedAnswer
                   /\ currentIndex = quizQuestions - 1
                   /\ reflectionCall'.score = score
                   /\ reflectionCall'.total = quizQuestions
                   /\ score + Len(incorrectQuestions) = quizQuestions]_vars

\* C39: a quiz of three questions has been finished with one answer
\* correct and two recorded as incorrect.
C39_Witness ==
    /\ reflectionCall.pending
    /\ reflectionCall.total = 3
    /\ reflectionCall.score = 1
    /\ quizQuestions = 3

\* C40: when handleStartQuiz has succeeded and the quiz page is shown, error
\* is null, also when an earlier quiz generation had failed and set it.
C40_QuizWithoutError == view = "quiz" => error = "null"

====
